---- MODULE Spec2Model ----
(***************************************************************************)
(* Server lifecycle engine of the VM lifecycle API: the HTTP handlers of   *)
(* app/api/v1/endpoints (servers, flavors, images), the engine of          *)
(* app/services/server_service.py, the catalog services, the reference     *)
(* compute backend of app/infra/openstack/mock_client.py and the exception *)
(* handlers of app/core/exceptions.py, over a store of server rows and a   *)
(* read-only catalog of flavors and images.                                *)
(***************************************************************************)
EXTENDS Integers, Sequences, FiniteSets, TLC

VARIABLES
    servers,    \* the servers table: id -> row
    flavors,    \* the flavors table: id -> name
    images,     \* the images table: id -> name
    clock,      \* the wall clock
    last,       \* the request being answered and its response, or Idle
    deleted,    \* the IDs for which a client has received 204 from DELETE
    returned,   \* per ID, what a client last got back from a create or a resize
                \* of that server, no other request on it answered since
    seen,       \* the list endpoint and the total of the last list response a
                \* client got, no request having changed the store since
    scenario,   \* how far a client has come through the lifecycle scenario, and
                \* on which server
    inflight    \* per request slot, a request running concurrently with the
                \* others: what it read, what it wrote and how it ended

vars == <<servers, flavors, images, clock, last, deleted, returned, seen, scenario,
          inflight>>

(***************************************************************************)
(* Bounds of the model.                                                    *)
(***************************************************************************)
\* number of server IDs the ID generator can hand out
MaxServers == 2
\* last instant of the wall clock
MaxClock == 1
\* number of requests that can be in flight at once
MaxInflight == 2

\* Python's None: for an optional string, an optional record, an optional integer
None == "None"

Null == [null |-> TRUE]

NoInt == 0 - 1

\* the IDs create_server can draw (uuid4): a draw is an ID no stored row has
ServerIds == 1..MaxServers

(***************************************************************************)
(* app/models/server.py                                                    *)
(***************************************************************************)
ServerStatus ==
    {"BUILD", "ACTIVE", "SHUTOFF", "REBOOT", "RESIZE", "VERIFY_RESIZE", "ERROR", "DELETED"}

(***************************************************************************)
(* app/main.py: the catalog rows seed_data inserts, id -> name.            *)
(***************************************************************************)
F1 == "11111111-0000-0000-0000-000000000001"

F2 == "11111111-0000-0000-0000-000000000002"

F3 == "11111111-0000-0000-0000-000000000003"

F4 == "11111111-0000-0000-0000-000000000004"

F5 == "11111111-0000-0000-0000-000000000005"

I1 == "22222222-0000-0000-0000-000000000001"

I2 == "22222222-0000-0000-0000-000000000002"

I3 == "22222222-0000-0000-0000-000000000003"

I4 == "22222222-0000-0000-0000-000000000004"

SEED_FLAVORS ==
    (F1 :> "m1.tiny") @@ (F2 :> "m1.small") @@ (F3 :> "m1.medium") @@
    (F4 :> "m1.large") @@ (F5 :> "m1.xlarge")

SEED_IMAGES ==
    (I1 :> "Ubuntu 22.04 LTS") @@ (I2 :> "Debian 12") @@ (I3 :> "CentOS Stream 9") @@
    (I4 :> "Fedora 39")

(***************************************************************************)
(* Request inputs.                                                         *)
(***************************************************************************)
RECURSIVE Repeat(_, _)
Repeat(str, n) ==
    IF n = 0 THEN ""
    ELSE LET half == Repeat(str, n \div 2)
         IN  half \o half \o (IF n % 2 = 1 THEN str ELSE "")

\* the longest name the schemas admit, and the shortest over-long one
LongestName == Repeat("n", 255)

TooLongName == Repeat("n", 256)

ReqNames == {"web", LongestName, "", TooLongName}

ReqFlavorIds == {F1, F2, "nonexistent-id"}

ReqImageIds == {I1, "nonexistent-id"}

ReqActions == {"start", "stop", "reboot", "resize", "confirm_resize"}

ReqLimits == {0, 1, 2}

ReqOffsets == {0, 1, 2}

\* the IDs and offsets of the catalog reads: every seed record, a missing
\* one, and the offsets up to the end of the longer table
GetFlavorIds == DOMAIN SEED_FLAVORS \cup {"nonexistent-id"}

GetImageIds == DOMAIN SEED_IMAGES \cup {"nonexistent-id"}

CatalogOffsets == 0..5

\* the address _random_ip draws; it is written once by create_server and no
\* code path reads or rewrites it, so one address of 10.0.0.0/8 stands for all
IpAddresses == {"10.0.0.1"}

(***************************************************************************)
(* app/services/server_service.py: the engine's state machine.             *)
(***************************************************************************)
EmptyMap == [x \in {} |-> x]

\* the engine's table with a start permitted on a server that is being built
VALID_TRANSITIONS_StartOnBuild ==
    ("ACTIVE" :> (("stop" :> "SHUTOFF") @@ ("reboot" :> "ACTIVE") @@ ("resize" :> "ACTIVE")))
    @@ ("SHUTOFF" :> ("start" :> "ACTIVE"))
    @@ ("BUILD" :> ("start" :> "ACTIVE"))
    @@ ("REBOOT" :> EmptyMap)
    @@ ("RESIZE" :> EmptyMap)
    @@ ("VERIFY_RESIZE" :> ("confirm_resize" :> "ACTIVE"))

VALID_TRANSITIONS ==
    ("ACTIVE" :> (("stop" :> "SHUTOFF") @@ ("reboot" :> "ACTIVE") @@ ("resize" :> "ACTIVE")))
    @@ ("SHUTOFF" :> ("start" :> "ACTIVE"))
    @@ ("BUILD" :> EmptyMap)
    @@ ("REBOOT" :> EmptyMap)
    @@ ("RESIZE" :> EmptyMap)
    @@ ("VERIFY_RESIZE" :> ("confirm_resize" :> "ACTIVE"))

(***************************************************************************)
(* app/infra/openstack/mock_client.py: the backend's transition table.     *)
(***************************************************************************)
\* the backend's table with stop leaving the server running
ACTION_TRANSITIONS_StopKeepsActive ==
    ("ACTIVE" :> (("stop" :> "ACTIVE") @@ ("reboot" :> "ACTIVE") @@ ("resize" :> "ACTIVE")))
    @@ ("SHUTOFF" :> ("start" :> "ACTIVE"))

\* the backend's table with a reboot that passes through REBOOT
ACTION_TRANSITIONS_RebootPasses ==
    ("ACTIVE" :> (("stop" :> "SHUTOFF") @@ ("reboot" :> "REBOOT") @@ ("resize" :> "ACTIVE")))
    @@ ("SHUTOFF" :> ("start" :> "ACTIVE"))

ACTION_TRANSITIONS ==
    ("ACTIVE" :> (("stop" :> "SHUTOFF") @@ ("reboot" :> "ACTIVE") @@ ("resize" :> "ACTIVE")))
    @@ ("SHUTOFF" :> ("start" :> "ACTIVE"))

\* dict.get(key, {}) on a table of tables
GetOrEmpty(table, key) == IF key \in DOMAIN table THEN table[key] ELSE EmptyMap

(***************************************************************************)
(* app/core/exceptions.py: typed failures and their transport mapping.     *)
(***************************************************************************)
StatusCodeOf(exc) ==
    CASE exc = "ServerNotFoundError" -> 404
      [] exc = "FlavorNotFoundError" -> 404
      [] exc = "ImageNotFoundError" -> 404
      [] exc = "InvalidStateTransitionError" -> 409
      [] exc = "ServerDeletedError" -> 409
      [] exc = "RequestValidationError" -> 422
      [] OTHER -> 500

\* the codes with a deleted server reported under the code of a missing one
ErrorCodeOf_DeletedAsNotFound(exc) ==
    CASE exc = "ServerNotFoundError" -> "SERVER_NOT_FOUND"
      [] exc = "FlavorNotFoundError" -> "FLAVOR_NOT_FOUND"
      [] exc = "ImageNotFoundError" -> "IMAGE_NOT_FOUND"
      [] exc = "InvalidStateTransitionError" -> "INVALID_STATE_TRANSITION"
      [] exc = "ServerDeletedError" -> "SERVER_NOT_FOUND"
      [] exc = "RequestValidationError" -> "VALIDATION_ERROR"
      [] OTHER -> "INTERNAL_ERROR"

ErrorCodeOf(exc) ==
    CASE exc = "ServerNotFoundError" -> "SERVER_NOT_FOUND"
      [] exc = "FlavorNotFoundError" -> "FLAVOR_NOT_FOUND"
      [] exc = "ImageNotFoundError" -> "IMAGE_NOT_FOUND"
      [] exc = "InvalidStateTransitionError" -> "INVALID_STATE_TRANSITION"
      [] exc = "ServerDeletedError" -> "SERVER_DELETED"
      [] exc = "RequestValidationError" -> "VALIDATION_ERROR"
      [] OTHER -> "INTERNAL_ERROR"

\* outcome of an engine or backend call: a value, or a raised exception with
\* its message and details
Ok(store, value) ==
    [ok |-> TRUE, exc |-> None, message |-> None, details |-> Null,
     store |-> store, value |-> value]

Raise(store, exc, message, details) ==
    [ok |-> FALSE, exc |-> exc, message |-> message, details |-> details,
     store |-> store, value |-> Null]

\* the subclasses of AppException
AppExceptions ==
    {"ServerNotFoundError", "FlavorNotFoundError", "ImageNotFoundError",
     "InvalidStateTransitionError", "ServerDeletedError"}

ServerNotFoundError(store, server_id) ==
    Raise(store, "ServerNotFoundError",
          "Server " \o ToString(server_id) \o " not found", Null)

FlavorNotFoundError(store, flavor_id) ==
    Raise(store, "FlavorNotFoundError", "Flavor " \o flavor_id \o " not found", Null)

ImageNotFoundError(store, image_id) ==
    Raise(store, "ImageNotFoundError", "Image " \o image_id \o " not found", Null)

InvalidStateTransitionError(store, current_status, action) ==
    Raise(store, "InvalidStateTransitionError",
          "Cannot perform action '" \o action \o "' on server in status '"
              \o current_status \o "'",
          [current_status |-> current_status, action |-> action])

ServerDeletedError(store, server_id) ==
    Raise(store, "ServerDeletedError",
          "Server " \o ToString(server_id) \o " has been deleted and cannot be modified",
          Null)

\* the built-in exception the backend raises
ValueError(store, message) == Raise(store, "ValueError", message, Null)

(***************************************************************************)
(* app/infra/openstack/mock_client.py: the reference backend.              *)
(***************************************************************************)
get_flavor(flavor_id) == IF flavor_id \in DOMAIN flavors THEN flavors[flavor_id] ELSE None

get_image(image_id) == IF image_id \in DOMAIN images THEN images[image_id] ELSE None

get_server(store, server_id) == IF server_id \in DOMAIN store THEN store[server_id] ELSE Null

\* create_server leaving the row at the column default of the status
create_server_StartsInBuild(store, id, ip, name, flavor_id, image_id, now) ==
    LET server == [id |-> id, name |-> name, status |-> "BUILD", flavor_id |-> flavor_id,
                   image_id |-> image_id, ip_address |-> ip,
                   created_at |-> now, updated_at |-> now]
    IN  Ok(store @@ (id :> server), server)

\* create_server that returns the requested flavor and stores the first one
create_server_StoresFirstFlavor(store, id, ip, name, flavor_id, image_id, now) ==
    LET server == [id |-> id, name |-> name, status |-> "ACTIVE", flavor_id |-> flavor_id,
                   image_id |-> image_id, ip_address |-> ip,
                   created_at |-> now, updated_at |-> now]
    IN  Ok(store @@ (id :> [server EXCEPT !.flavor_id = F1]), server)

create_server(store, id, ip, name, flavor_id, image_id, now) ==
    LET server == [id |-> id, name |-> name, status |-> "ACTIVE", flavor_id |-> flavor_id,
                   image_id |-> image_id, ip_address |-> ip,
                   created_at |-> now, updated_at |-> now]
    IN  Ok(store @@ (id :> server), server)

\* update_server that also puts the server back to ACTIVE
update_server_ReactivatesServer(store, server_id, name, now) ==
    IF server_id \notin DOMAIN store
    THEN ValueError(store, "Server " \o ToString(server_id) \o " not found")
    ELSE LET server == [store[server_id] EXCEPT !.name = name, !.status = "ACTIVE",
                                                !.updated_at = now]
         IN  Ok([store EXCEPT ![server_id] = server], server)

update_server(store, server_id, name, now) ==
    IF server_id \notin DOMAIN store
    THEN ValueError(store, "Server " \o ToString(server_id) \o " not found")
    ELSE LET server == [store[server_id] EXCEPT !.name = name, !.updated_at = now]
         IN  Ok([store EXCEPT ![server_id] = server], server)

\* delete_server that does not stamp the row
delete_server_KeepsTimestamp(store, server_id, now) ==
    IF server_id \notin DOMAIN store
    THEN ValueError(store, "Server " \o ToString(server_id) \o " not found")
    ELSE LET server == [store[server_id] EXCEPT !.status = "DELETED"]
         IN  Ok([store EXCEPT ![server_id] = server], Null)

delete_server(store, server_id, now) ==
    IF server_id \notin DOMAIN store
    THEN ValueError(store, "Server " \o ToString(server_id) \o " not found")
    ELSE LET server == [store[server_id] EXCEPT !.status = "DELETED", !.updated_at = now]
         IN  Ok([store EXCEPT ![server_id] = server], Null)

\* perform_action that never writes the flavor
backend_perform_action_KeepsFlavor(store, server_id, action, kw_flavor_id, now) ==
    IF server_id \notin DOMAIN store
    THEN ValueError(store, "Server " \o ToString(server_id) \o " not found")
    ELSE LET transitions == GetOrEmpty(ACTION_TRANSITIONS, store[server_id].status)
         IN  IF action \notin DOMAIN transitions
             THEN ValueError(store, "Cannot perform action '" \o action
                                         \o "' on server in status 'ServerStatus."
                                         \o store[server_id].status \o "'")
             ELSE LET server ==
                          [store[server_id] EXCEPT
                              !.status = transitions[action],
                              !.updated_at = now]
                  IN  Ok([store EXCEPT ![server_id] = server], server)

\* perform_action that releases the address of a server it stops
backend_perform_action_ReleasesAddress(store, server_id, action, kw_flavor_id, now) ==
    IF server_id \notin DOMAIN store
    THEN ValueError(store, "Server " \o ToString(server_id) \o " not found")
    ELSE LET transitions == GetOrEmpty(ACTION_TRANSITIONS, store[server_id].status)
         IN  IF action \notin DOMAIN transitions
             THEN ValueError(store, "Cannot perform action '" \o action
                                         \o "' on server in status 'ServerStatus."
                                         \o store[server_id].status \o "'")
             ELSE LET server ==
                          [store[server_id] EXCEPT
                              !.status = transitions[action],
                              !.flavor_id = IF action = "resize" /\ kw_flavor_id # None
                                            THEN kw_flavor_id ELSE @,
                              !.ip_address = IF action = "stop" THEN None ELSE @,
                              !.updated_at = now]
                  IN  Ok([store EXCEPT ![server_id] = server], server)

\* perform_action that stamps the row before it looks the action up
backend_perform_action_StampsFirst(store, server_id, action, kw_flavor_id, now) ==
    IF server_id \notin DOMAIN store
    THEN ValueError(store, "Server " \o ToString(server_id) \o " not found")
    ELSE LET transitions == GetOrEmpty(ACTION_TRANSITIONS, store[server_id].status)
             stamped == [store EXCEPT ![server_id].updated_at = now]
         IN  IF action \notin DOMAIN transitions
             THEN ValueError(stamped, "Cannot perform action '" \o action
                                           \o "' on server in status 'ServerStatus."
                                           \o store[server_id].status \o "'")
             ELSE LET server ==
                          [store[server_id] EXCEPT
                              !.status = transitions[action],
                              !.flavor_id = IF action = "resize" /\ kw_flavor_id # None
                                            THEN kw_flavor_id ELSE @,
                              !.updated_at = now]
                  IN  Ok([store EXCEPT ![server_id] = server], server)

backend_perform_action(store, server_id, action, kw_flavor_id, now) ==
    IF server_id \notin DOMAIN store
    THEN ValueError(store, "Server " \o ToString(server_id) \o " not found")
    ELSE LET transitions == GetOrEmpty(ACTION_TRANSITIONS, store[server_id].status)
         IN  IF action \notin DOMAIN transitions
             THEN ValueError(store, "Cannot perform action '" \o action
                                         \o "' on server in status 'ServerStatus."
                                         \o store[server_id].status \o "'")
             ELSE LET server ==
                          [store[server_id] EXCEPT
                              !.status = transitions[action],
                              !.flavor_id = IF action = "resize" /\ kw_flavor_id # None
                                            THEN kw_flavor_id ELSE @,
                              !.updated_at = now]
                  IN  Ok([store EXCEPT ![server_id] = server], server)

\* ORDER BY created_at DESC over the rows that are not DELETED: every order
\* of the visible IDs in which created_at never increases (rows with equal
\* created_at may come in any order)
Visible(store) == {id \in DOMAIN store : store[id].status # "DELETED"}

Orderings(store) ==
    LET ids == Visible(store)
        n == Cardinality(ids)
    IN  {ord \in [1..n -> ids] :
            /\ \A i, j \in 1..n : i # j => ord[i] # ord[j]
            /\ \A i \in 1..n : \A j \in 1..n :
                  i < j => store[ord[i]].created_at >= store[ord[j]].created_at}

Min(a, b) == IF a < b THEN a ELSE b

\* a page that starts one row late
Slice_SkipsOneMore(seq, limit, offset) ==
    SubSeq(seq, offset + 2, Min(offset + 1 + limit, Len(seq)))

\* LIMIT limit OFFSET offset
Slice(seq, limit, offset) == SubSeq(seq, offset + 1, Min(offset + limit, Len(seq)))

\* list_servers whose count leaves the status filter out
list_servers_CountsTombstones(store, ord, limit, offset) ==
    LET total == Cardinality(DOMAIN store)
        page == Slice(ord, limit, offset)
    IN  Ok(store, [records |-> [k \in 1..Len(page) |-> store[page[k]]], total |-> total])

\* the two queries of list_servers: SELECT count(*) and the page SELECT
count_servers(store) == Cardinality(Visible(store))

page_servers(store, ord, limit, offset) ==
    LET page == Slice(ord, limit, offset)
    IN  [k \in 1..Len(page) |-> store[page[k]]]

\* both queries on one store: a list request during which nothing commits
list_servers(store, ord, limit, offset) ==
    Ok(store, [records |-> page_servers(store, ord, limit, offset),
               total |-> count_servers(store)])

\* ORDER BY name over a catalog table: the names of the seed in ascending
\* order, and every order of the table's IDs in which the name never
\* decreases
NameOrder ==
    <<"CentOS Stream 9", "Debian 12", "Fedora 39", "Ubuntu 22.04 LTS",
      "m1.large", "m1.medium", "m1.small", "m1.tiny", "m1.xlarge">>

NameRank(name) == CHOOSE i \in 1..Len(NameOrder) : NameOrder[i] = name

RECURSIVE OrderedByName(_, _)
OrderedByName(table, ids) ==
    IF ids = {}
    THEN {<<>>}
    ELSE UNION {{<<id>> \o rest : rest \in OrderedByName(table, ids \ {id})} :
                  id \in {i \in ids :
                            \A j \in ids : NameRank(table[i]) <= NameRank(table[j])}}

CatalogOrderings(table) == OrderedByName(table, DOMAIN table)

CatalogRecord(table, id) == [id |-> id, name |-> table[id]]

\* the flavor listing whose total counts the page instead of the table
list_flavors_CountsPage(store, ord, limit, offset) ==
    LET page == Slice(ord, limit, offset)
    IN  Ok(store, [records |-> [k \in 1..Len(page) |-> CatalogRecord(flavors, page[k])],
                   total |-> Len(page)])

list_flavors(store, ord, limit, offset) ==
    LET total == Cardinality(DOMAIN flavors)
        page == Slice(ord, limit, offset)
    IN  Ok(store, [records |-> [k \in 1..Len(page) |-> CatalogRecord(flavors, page[k])],
                   total |-> total])

list_images(store, ord, limit, offset) ==
    LET total == Cardinality(DOMAIN images)
        page == Slice(ord, limit, offset)
    IN  Ok(store, [records |-> [k \in 1..Len(page) |-> CatalogRecord(images, page[k])],
                   total |-> total])

(***************************************************************************)
(* app/services/flavor_service.py, app/services/image_service.py           *)
(***************************************************************************)
FlavorService_get(store, flavor_id) ==
    IF get_flavor(flavor_id) = None
    THEN FlavorNotFoundError(store, flavor_id)
    ELSE Ok(store, CatalogRecord(flavors, flavor_id))

FlavorService_list(store, ord, limit, offset) == list_flavors(store, ord, limit, offset)

ImageService_get(store, image_id) ==
    IF get_image(image_id) = None
    THEN ImageNotFoundError(store, image_id)
    ELSE Ok(store, CatalogRecord(images, image_id))

ImageService_list(store, ord, limit, offset) == list_images(store, ord, limit, offset)

(***************************************************************************)
(* app/services/server_service.py: the engine.                             *)
(***************************************************************************)
\* create with the row written before the image is looked up
service_create_RowBeforeImageCheck(store, id, ip, name, flavor_id, image_id, now) ==
    IF get_flavor(flavor_id) = None
    THEN FlavorNotFoundError(store, flavor_id)
    ELSE IF get_image(image_id) = None
    THEN ImageNotFoundError(create_server(store, id, ip, name, flavor_id, image_id, now).store,
                            image_id)
    ELSE create_server(store, id, ip, name, flavor_id, image_id, now)

\* create that looks the image up before the flavor
service_create_ImageFirst(store, id, ip, name, flavor_id, image_id, now) ==
    IF get_image(image_id) = None
    THEN ImageNotFoundError(store, image_id)
    ELSE IF get_flavor(flavor_id) = None
    THEN FlavorNotFoundError(store, flavor_id)
    ELSE create_server(store, id, ip, name, flavor_id, image_id, now)

service_create(store, id, ip, name, flavor_id, image_id, now) ==
    IF get_flavor(flavor_id) = None
    THEN FlavorNotFoundError(store, flavor_id)
    ELSE IF get_image(image_id) = None
    THEN ImageNotFoundError(store, image_id)
    ELSE create_server(store, id, ip, name, flavor_id, image_id, now)

\* get without the tombstone check
service_get_ReturnsTombstone(store, server_id) ==
    IF get_server(store, server_id) = Null
    THEN ServerNotFoundError(store, server_id)
    ELSE Ok(store, store[server_id])

service_get(store, server_id) ==
    IF get_server(store, server_id) = Null
    THEN ServerNotFoundError(store, server_id)
    ELSE IF store[server_id].status = "DELETED"
    THEN ServerNotFoundError(store, server_id)
    ELSE Ok(store, store[server_id])

service_list(store, ord, limit, offset) == list_servers(store, ord, limit, offset)

\* update without the tombstone check
service_update_RenamesTombstone(store, server_id, name, now) ==
    IF get_server(store, server_id) = Null
    THEN ServerNotFoundError(store, server_id)
    ELSE update_server(store, server_id,
                       IF name # None THEN name ELSE store[server_id].name, now)

\* update answering a tombstone as it answers a missing row
service_update_TombstoneNotFound(store, server_id, name, now) ==
    IF get_server(store, server_id) = Null
    THEN ServerNotFoundError(store, server_id)
    ELSE IF store[server_id].status = "DELETED"
    THEN ServerNotFoundError(store, server_id)
    ELSE update_server(store, server_id,
                       IF name # None THEN name ELSE store[server_id].name, now)

service_update(store, server_id, name, now) ==
    IF get_server(store, server_id) = Null
    THEN ServerNotFoundError(store, server_id)
    ELSE IF store[server_id].status = "DELETED"
    THEN ServerDeletedError(store, server_id)
    ELSE update_server(store, server_id,
                       IF name # None THEN name ELSE store[server_id].name, now)

\* delete as a set-to-DELETED operation: no tombstone check
service_delete_Idempotent(store, server_id, now) ==
    IF get_server(store, server_id) = Null
    THEN ServerNotFoundError(store, server_id)
    ELSE delete_server(store, server_id, now)

\* delete gated by the transition table: only a running or stopped server
service_delete_GatedByTable(store, server_id, now) ==
    IF get_server(store, server_id) = Null
    THEN ServerNotFoundError(store, server_id)
    ELSE IF store[server_id].status = "DELETED"
    THEN ServerNotFoundError(store, server_id)
    ELSE IF store[server_id].status \notin DOMAIN ACTION_TRANSITIONS
    THEN InvalidStateTransitionError(store, store[server_id].status, "delete")
    ELSE delete_server(store, server_id, now)

service_delete(store, server_id, now) ==
    IF get_server(store, server_id) = Null
    THEN ServerNotFoundError(store, server_id)
    ELSE IF store[server_id].status = "DELETED"
    THEN ServerNotFoundError(store, server_id)
    ELSE delete_server(store, server_id, now)

\* perform_action with the state check ahead of the tombstone check
service_perform_action_StateFirst(store, server_id, action, flavor_id, now) ==
    IF get_server(store, server_id) = Null
    THEN ServerNotFoundError(store, server_id)
    ELSE LET status == store[server_id].status
             allowed == GetOrEmpty(VALID_TRANSITIONS, status)
         IN  IF action \notin DOMAIN allowed
             THEN InvalidStateTransitionError(store, status, action)
             ELSE IF action = "resize" /\ flavor_id \notin {None, ""}
             THEN IF get_flavor(flavor_id) = None
                  THEN FlavorNotFoundError(store, flavor_id)
                  ELSE backend_perform_action(store, server_id, action, flavor_id, now)
             ELSE backend_perform_action(store, server_id, action, None, now)

\* perform_action with the flavor of a resize looked up ahead of the state check
service_perform_action_FlavorFirst(store, server_id, action, flavor_id, now) ==
    IF get_server(store, server_id) = Null
    THEN ServerNotFoundError(store, server_id)
    ELSE IF store[server_id].status = "DELETED"
    THEN ServerNotFoundError(store, server_id)
    ELSE LET status == store[server_id].status
             allowed == GetOrEmpty(VALID_TRANSITIONS, status)
         IN  IF action = "resize" /\ flavor_id \notin {None, ""}
                /\ get_flavor(flavor_id) = None
             THEN FlavorNotFoundError(store, flavor_id)
             ELSE IF action \notin DOMAIN allowed
             THEN InvalidStateTransitionError(store, status, action)
             ELSE backend_perform_action(store, server_id, action,
                                         IF action = "resize" /\ flavor_id \notin {None, ""}
                                         THEN flavor_id ELSE None, now)

service_perform_action(store, server_id, action, flavor_id, now) ==
    IF get_server(store, server_id) = Null
    THEN ServerNotFoundError(store, server_id)
    ELSE IF store[server_id].status = "DELETED"
    THEN ServerNotFoundError(store, server_id)
    ELSE LET status == store[server_id].status
             allowed == GetOrEmpty(VALID_TRANSITIONS, status)
         IN  IF action \notin DOMAIN allowed
             THEN InvalidStateTransitionError(store, status, action)
             ELSE IF action = "resize" /\ flavor_id \notin {None, ""}
             THEN IF get_flavor(flavor_id) = None
                  THEN FlavorNotFoundError(store, flavor_id)
                  ELSE backend_perform_action(store, server_id, action, flavor_id, now)
             ELSE backend_perform_action(store, server_id, action, None, now)

(***************************************************************************)
(* app/schemas/server.py: request validation.                              *)
(***************************************************************************)
ActionType == {"start", "stop", "reboot", "resize"}

\* name is required: a payload without it is refused
ServerCreateValid(name) == name # None /\ Len(name) >= 1 /\ Len(name) <= 255

\* the update schema without the upper bound of the name
ServerUpdateValid_Unbounded(name) == name = None \/ Len(name) >= 1

ServerUpdateValid(name) == name = None \/ (Len(name) >= 1 /\ Len(name) <= 255)

\* the action schema without its second check: a flavor_id on any action
ServerActionValid_FlavorOptional(action, flavor_id) ==
    /\ action \in ActionType
    /\ ~(action = "resize" /\ flavor_id \in {None, ""})

ServerActionValid(action, flavor_id) ==
    /\ action \in ActionType
    /\ ~(action = "resize" /\ flavor_id \in {None, ""})
    /\ ~(action # "resize" /\ flavor_id # None)

(***************************************************************************)
(* app/core/pagination.py: limit in 1..100, offset >= 0.                   *)
(***************************************************************************)
PaginationParamsValid(limit, offset) == limit >= 1 /\ limit <= 100 /\ offset >= 0

(***************************************************************************)
(* app/schemas/common.py                                                   *)
(***************************************************************************)
\* build that announces a next page that starts at the total
PaginatedResponse_NextAtTotal(items, total, limit, offset) ==
    [items |-> items, total |-> total, limit |-> limit, offset |-> offset,
     next_offset |-> IF offset + limit <= total THEN offset + limit ELSE NoInt]

PaginatedResponse(items, total, limit, offset) ==
    [items |-> items, total |-> total, limit |-> limit, offset |-> offset,
     next_offset |-> IF offset + limit < total THEN offset + limit ELSE NoInt]

(***************************************************************************)
(* The HTTP boundary: one request and the response it got.                 *)
(***************************************************************************)
NoReq ==
    [server_id |-> NoInt, name |-> None, flavor_id |-> None, image_id |-> None,
     action |-> None, limit |-> NoInt, offset |-> NoInt]

NoSeen == [op |-> "none", total |-> NoInt]

\* the request slots of the server: requests that run at the same time
Slots == 1..MaxInflight

NoSlot ==
    [pc |-> "idle", op |-> "none", req |-> NoReq, loaded |-> Null, kw |-> None,
     calls |-> <<>>, http |-> NoInt, code |-> None, exc |-> None,
     before |-> Null, after |-> Null, raced |-> {},
     total |-> NoInt, body |-> Null, paged |-> Null]

Idle ==
    [op |-> "idle", req |-> NoReq, http |-> NoInt, code |-> None, message |-> None,
     details |-> Null, body |-> Null, pre |-> EmptyMap, now |-> NoInt, exc |-> Null]

\* a returned value becomes the success status and the body; a raised
\* exception goes through the handlers of register_exception_handlers
\* the message of the error body: an AppException's own message, the fixed
\* text of validation_exception_handler, the fixed text of
\* generic_exception_handler
\* a generic handler that passes the exception's text on
MessageOf_EchoesException(exc, message) ==
    CASE exc = "RequestValidationError" -> "Request validation failed"
      [] OTHER -> message

MessageOf(exc, message) ==
    CASE exc \in AppExceptions -> message
      [] exc = "RequestValidationError" -> "Request validation failed"
      [] OTHER -> "An unexpected error occurred"

\* the details of the error body: an AppException's details, the list of
\* validation errors, null from generic_exception_handler
DetailsOf(exc, details) ==
    IF exc \in AppExceptions \cup {"RequestValidationError"} THEN details ELSE Null

\* exc is what was raised (type and message), for the server's log
Response(op, req, success, r, body, pre, now) ==
    [op |-> op, req |-> req,
     http |-> IF r.ok THEN success ELSE StatusCodeOf(r.exc),
     code |-> IF r.ok THEN None ELSE ErrorCodeOf(r.exc),
     message |-> IF r.ok THEN None ELSE MessageOf(r.exc, r.message),
     details |-> IF r.ok THEN Null ELSE DetailsOf(r.exc, r.details),
     body |-> IF r.ok THEN body ELSE Null,
     pre |-> pre, now |-> now,
     exc |-> IF r.ok THEN Null ELSE [type |-> r.exc, message |-> r.message]]

\* a payload or query the schema refuses: validation_exception_handler answers
\* with the list of validation errors as details
Invalid(store) ==
    Raise(store, "RequestValidationError", "validation error",
          [errors |-> <<[loc |-> "request", type |-> "value_error"]>>])

(***************************************************************************)
(* app/api/v1/endpoints/servers.py: the handlers.                          *)
(***************************************************************************)
\* create that provisions the flavor it was asked for when the catalog lacks it
ApiCreateServer_ProvisionsFlavor ==
    /\ last.op = "idle"
    /\ \E name \in ReqNames \cup {None}, flavor_id \in ReqFlavorIds, image_id \in ReqImageIds,
          id \in ServerIds, ip \in IpAddresses :
          LET r == IF ServerCreateValid(name)
                   THEN service_create(servers, id, ip, name, flavor_id, image_id, clock)
                   ELSE Invalid(servers)
              req == [NoReq EXCEPT !.name = name, !.flavor_id = flavor_id,
                                   !.image_id = image_id]
          IN  /\ r.ok => id \notin DOMAIN servers
              /\ servers' = r.store
              /\ flavors' = IF ServerCreateValid(name) /\ flavor_id \notin DOMAIN flavors
                            THEN flavors @@ (flavor_id :> "m1.tiny")
                            ELSE flavors
              /\ last' = Response("create", req, 201, r, r.value, servers, clock)
    /\ UNCHANGED <<images, clock, deleted, returned, seen, scenario, inflight>>

ApiCreateServer ==
    /\ last.op = "idle"
    /\ \E name \in ReqNames \cup {None}, flavor_id \in ReqFlavorIds, image_id \in ReqImageIds,
          id \in ServerIds, ip \in IpAddresses :
          LET r == IF ServerCreateValid(name)
                   THEN service_create(servers, id, ip, name, flavor_id, image_id, clock)
                   ELSE Invalid(servers)
              req == [NoReq EXCEPT !.name = name, !.flavor_id = flavor_id,
                                   !.image_id = image_id]
          IN  /\ r.ok => id \notin DOMAIN servers
              /\ servers' = r.store
              /\ last' = Response("create", req, 201, r, r.value, servers, clock)
    /\ UNCHANGED <<flavors, images, clock, deleted, returned, seen, scenario, inflight>>

ApiGetServer ==
    /\ last.op = "idle"
    /\ \E server_id \in ServerIds :
          LET r == service_get(servers, server_id)
              req == [NoReq EXCEPT !.server_id = server_id]
          IN  /\ servers' = r.store
              /\ last' = Response("get", req, 200, r, r.value, servers, clock)
    /\ UNCHANGED <<flavors, images, clock, deleted, returned, seen, scenario, inflight>>

ApiListServers ==
    /\ last.op = "idle"
    /\ \E limit \in ReqLimits, offset \in ReqOffsets, ord \in Orderings(servers) :
          LET r == IF PaginationParamsValid(limit, offset)
                   THEN service_list(servers, ord, limit, offset)
                   ELSE Invalid(servers)
              req == [NoReq EXCEPT !.limit = limit, !.offset = offset]
          IN  /\ servers' = r.store
              /\ last' = Response("list", req, 200, r,
                                  IF r.ok
                                  THEN PaginatedResponse(r.value.records, r.value.total,
                                                         limit, offset)
                                  ELSE Null,
                                  servers, clock)
    /\ UNCHANGED <<flavors, images, clock, deleted, returned, seen, scenario, inflight>>

ApiUpdateServer ==
    /\ last.op = "idle"
    /\ \E server_id \in ServerIds, name \in ReqNames \cup {None} :
          LET r == IF ServerUpdateValid(name)
                   THEN service_update(servers, server_id, name, clock)
                   ELSE Invalid(servers)
              req == [NoReq EXCEPT !.server_id = server_id, !.name = name]
          IN  /\ servers' = r.store
              /\ last' = Response("update", req, 200, r, r.value, servers, clock)
    /\ UNCHANGED <<flavors, images, clock, deleted, returned, seen, scenario, inflight>>

ApiDeleteServer ==
    /\ last.op = "idle"
    /\ \E server_id \in ServerIds :
          LET r == service_delete(servers, server_id, clock)
              req == [NoReq EXCEPT !.server_id = server_id]
          IN  /\ servers' = r.store
              /\ last' = Response("delete", req, 204, r, Null, servers, clock)
    /\ UNCHANGED <<flavors, images, clock, deleted, returned, seen, scenario, inflight>>

ApiServerAction ==
    /\ last.op = "idle"
    /\ \E server_id \in ServerIds, action \in ReqActions,
          flavor_id \in ReqFlavorIds \cup {None, ""} :
          LET r == IF ServerActionValid(action, flavor_id)
                   THEN service_perform_action(servers, server_id, action, flavor_id, clock)
                   ELSE Invalid(servers)
              req == [NoReq EXCEPT !.server_id = server_id, !.action = action,
                                   !.flavor_id = flavor_id]
          IN  /\ servers' = r.store
              /\ last' = Response("action", req, 202, r, r.value, servers, clock)
    /\ UNCHANGED <<flavors, images, clock, deleted, returned, seen, scenario, inflight>>

(***************************************************************************)
(* app/api/v1/endpoints/flavors.py, app/api/v1/endpoints/images.py         *)
(***************************************************************************)
ApiListFlavors ==
    /\ last.op = "idle"
    /\ \E limit \in ReqLimits, offset \in CatalogOffsets, ord \in CatalogOrderings(flavors) :
          LET r == IF PaginationParamsValid(limit, offset)
                   THEN FlavorService_list(servers, ord, limit, offset)
                   ELSE Invalid(servers)
              req == [NoReq EXCEPT !.limit = limit, !.offset = offset]
          IN  /\ servers' = r.store
              /\ last' = Response("list_flavors", req, 200, r,
                                  IF r.ok
                                  THEN PaginatedResponse(r.value.records, r.value.total,
                                                         limit, offset)
                                  ELSE Null,
                                  servers, clock)
    /\ UNCHANGED <<flavors, images, clock, deleted, returned, seen, scenario, inflight>>

ApiGetFlavor ==
    /\ last.op = "idle"
    /\ \E flavor_id \in GetFlavorIds :
          LET r == FlavorService_get(servers, flavor_id)
              req == [NoReq EXCEPT !.flavor_id = flavor_id]
          IN  /\ servers' = r.store
              /\ last' = Response("get_flavor", req, 200, r, r.value, servers, clock)
    /\ UNCHANGED <<flavors, images, clock, deleted, returned, seen, scenario, inflight>>

ApiListImages ==
    /\ last.op = "idle"
    /\ \E limit \in ReqLimits, offset \in CatalogOffsets, ord \in CatalogOrderings(images) :
          LET r == IF PaginationParamsValid(limit, offset)
                   THEN ImageService_list(servers, ord, limit, offset)
                   ELSE Invalid(servers)
              req == [NoReq EXCEPT !.limit = limit, !.offset = offset]
          IN  /\ servers' = r.store
              /\ last' = Response("list_images", req, 200, r,
                                  IF r.ok
                                  THEN PaginatedResponse(r.value.records, r.value.total,
                                                         limit, offset)
                                  ELSE Null,
                                  servers, clock)
    /\ UNCHANGED <<flavors, images, clock, deleted, returned, seen, scenario, inflight>>

ApiGetImage ==
    /\ last.op = "idle"
    /\ \E image_id \in GetImageIds :
          LET r == ImageService_get(servers, image_id)
              req == [NoReq EXCEPT !.image_id = image_id]
          IN  /\ servers' = r.store
              /\ last' = Response("get_image", req, 200, r, r.value, servers, clock)
    /\ UNCHANGED <<flavors, images, clock, deleted, returned, seen, scenario, inflight>>

(***************************************************************************)
(* A request during which a call into the database raises: the exception   *)
(* is none of the application's, it propagates out of the endpoint before  *)
(* anything is written, and generic_exception_handler answers.             *)
(***************************************************************************)
InternalExceptions ==
    {[type |-> "OperationalError", message |-> "database is locked"],
     [type |-> "TimeoutError", message |-> "connection timed out"]}

UnhandledException ==
    /\ last.op = "idle"
    /\ \E e \in InternalExceptions :
          LET r == Raise(servers, e.type, e.message, Null)
          IN  /\ servers' = r.store
              /\ last' = Response("unhandled", NoReq, NoInt, r, Null, servers, clock)
    /\ UNCHANGED <<flavors, images, clock, deleted, returned, seen, scenario, inflight>>

\* a client that pages through the servers: it asks for offset 0 and follows
\* next_offset with the same limit until it is null, no other request being
\* served in between; each page is a query of its own. The result is the
\* sequence of pages, each the sequence of the IDs it held.
RECURSIVE WalkFrom(_, _, _)
WalkFrom(store, limit, offset) ==
    UNION {LET r == service_list(store, ord, limit, offset)
               body == PaginatedResponse(r.value.records, r.value.total, limit, offset)
               page == [k \in 1..Len(body.items) |-> body.items[k].id]
           IN  IF body.next_offset = NoInt
               THEN {<<page>>}
               ELSE {<<page>> \o rest : rest \in WalkFrom(store, limit, body.next_offset)} :
             ord \in Orderings(store)}

ApiWalkServers ==
    /\ last.op = "idle"
    /\ \E limit \in {l \in ReqLimits : PaginationParamsValid(l, 0)} :
          \E pages \in WalkFrom(servers, limit, 0) :
             LET r == Ok(servers, [pages |-> pages])
                 req == [NoReq EXCEPT !.limit = limit, !.offset = 0]
             IN  /\ servers' = r.store
                 /\ last' = Response("walk", req, 200, r, r.value, servers, clock)
    /\ UNCHANGED <<flavors, images, clock, deleted, returned, seen, scenario, inflight>>

\* a caller of the compute backend that invokes perform_action itself, with any
\* action name and with or without the flavor_id keyword
BackendPerformAction ==
    /\ last.op = "idle"
    /\ \E server_id \in ServerIds, action \in ReqActions, kw_flavor_id \in {None, F2} :
          LET r == backend_perform_action(servers, server_id, action, kw_flavor_id, clock)
              req == [NoReq EXCEPT !.server_id = server_id, !.action = action,
                                   !.flavor_id = kw_flavor_id]
          IN  /\ servers' = r.store
              /\ last' = Response("backend_action", req, NoInt, r, r.value, servers, clock)
    /\ UNCHANGED <<flavors, images, clock, deleted, returned, seen, scenario, inflight>>

\* the lifecycle scenario of a client: create, stop, stop, start, resize to the
\* second flavor, delete, get, stop, one request after the other on the server
\* the create returned
ScenarioOff == [step |-> NoInt, id |-> NoInt]

ScenarioAction(sc, action, flavor_id) ==
    /\ last.op = "action"
    /\ last.req.server_id = sc.id
    /\ last.req.action = action
    /\ last.req.flavor_id = flavor_id

\* the answered request is the request the scenario issues at its step
ScenarioRequest(sc) ==
    CASE sc.step = 0 -> /\ last.op = "create"
                        /\ last.req.name = "web"
                        /\ last.req.flavor_id = F1
                        /\ last.req.image_id = I1
      [] sc.step = 1 -> ScenarioAction(sc, "stop", None)
      [] sc.step = 2 -> ScenarioAction(sc, "stop", None)
      [] sc.step = 3 -> ScenarioAction(sc, "start", None)
      [] sc.step = 4 -> ScenarioAction(sc, "resize", F2)
      [] sc.step = 5 -> last.op = "delete" /\ last.req.server_id = sc.id
      [] sc.step = 6 -> last.op = "get" /\ last.req.server_id = sc.id
      [] sc.step = 7 -> ScenarioAction(sc, "stop", None)
      [] OTHER -> FALSE

\* the response reaches the client; the next request can be issued
Deliver ==
    /\ last.op # "idle"
    /\ last' = Idle
    /\ deleted' = IF last.op = "delete" /\ last.http = 204
                  THEN deleted \cup {last.req.server_id} ELSE deleted
    /\ returned' =
          IF last.op = "create" /\ last.http = 201
          THEN [returned EXCEPT ![last.body.id] =
                   [op |-> "create", id |-> last.body.id, name |-> last.body.name,
                    flavor_id |-> last.body.flavor_id, image_id |-> last.body.image_id]]
          ELSE IF last.op = "action" /\ last.http = 202 /\ last.req.action = "resize"
          THEN [returned EXCEPT ![last.req.server_id] =
                   [op |-> "resize", id |-> last.req.server_id,
                    flavor_id |-> last.req.flavor_id]]
          ELSE IF last.op \in {"get", "update", "delete", "action", "backend_action"}
          THEN [returned EXCEPT ![last.req.server_id] = Null]
          ELSE returned
    /\ seen' =
          IF last.op \in {"list", "list_flavors", "list_images"} /\ last.http = 200
          THEN [op |-> last.op, total |-> last.body.total]
          ELSE IF servers # last.pre THEN NoSeen ELSE seen
    /\ scenario' =
          IF scenario.step = NoInt
          THEN scenario
          ELSE IF ScenarioRequest(scenario)
          THEN [step |-> scenario.step + 1,
                id |-> IF scenario.step > 0 THEN scenario.id
                       ELSE IF last.http = 201 THEN last.body.id ELSE NoInt]
          ELSE ScenarioOff
    /\ UNCHANGED <<servers, flavors, images, clock, inflight>>

\* the wall clock advances between requests
Tick ==
    /\ last.op = "idle"
    /\ clock < MaxClock
    /\ clock' = clock + 1
    /\ UNCHANGED <<servers, flavors, images, last, deleted, returned, seen, scenario, inflight>>

\* a fresh deployment: seeded catalog, no servers
Init ==
    /\ servers = EmptyMap
    /\ flavors = SEED_FLAVORS
    /\ images = SEED_IMAGES
    /\ clock = 0
    /\ last = Idle
    /\ deleted = {}
    /\ returned = [id \in ServerIds |-> Null]
    /\ seen = NoSeen
    /\ scenario = ScenarioOff
    /\ inflight = [slot \in Slots |-> NoSlot]

\* a deployment whose servers table already holds a row in any status of the
\* ServerStatus column (a row left by a backend that passes through BUILD,
\* REBOOT, RESIZE, VERIFY_RESIZE or ERROR), or no row
StoredRow(id, status) ==
    [id |-> id, name |-> "web", status |-> status, flavor_id |-> F1, image_id |-> I1,
     ip_address |-> "10.0.0.1", created_at |-> 0, updated_at |-> 0]

InitStored ==
    /\ servers \in {EmptyMap} \cup {(1 :> StoredRow(1, st)) : st \in ServerStatus}
    /\ flavors = SEED_FLAVORS
    /\ images = SEED_IMAGES
    /\ clock = 0
    /\ last = Idle
    /\ deleted = {}
    /\ returned = [id \in ServerIds |-> Null]
    /\ seen = NoSeen
    /\ scenario = ScenarioOff
    /\ inflight = [slot \in Slots |-> NoSlot]

Next ==
    \/ ApiCreateServer
    \/ ApiGetServer
    \/ ApiListServers
    \/ ApiUpdateServer
    \/ ApiDeleteServer
    \/ ApiServerAction
    \/ ApiListFlavors
    \/ ApiGetFlavor
    \/ ApiListImages
    \/ ApiGetImage
    \/ UnhandledException
    \/ Deliver
    \/ Tick

Spec == Init /\ [][Next]_vars

\* a fresh deployment and a client that starts the lifecycle scenario
InitScenario ==
    /\ servers = EmptyMap
    /\ flavors = SEED_FLAVORS
    /\ images = SEED_IMAGES
    /\ clock = 0
    /\ last = Idle
    /\ deleted = {}
    /\ returned = [id \in ServerIds |-> Null]
    /\ seen = NoSeen
    /\ scenario = [step |-> 0, id |-> NoInt]
    /\ inflight = [slot \in Slots |-> NoSlot]

SpecScenario == InitScenario /\ [][Next]_vars

SpecStored == InitStored /\ [][Next]_vars

\* the API together with a direct caller of the backend
NextBackend ==
    \/ Next
    \/ BackendPerformAction

SpecBackend == InitStored /\ [][NextBackend]_vars

(***************************************************************************)
(* app/main.py: start-up. lifespan runs seed_data on whatever the catalog  *)
(* tables hold: each table is seeded only when a SELECT ... LIMIT 1 finds  *)
(* no row in it.                                                           *)
(***************************************************************************)
\* seed_data that inserts the seed without looking at the table
seed_data_Unconditional(fl, im) ==
    [flavors |-> SEED_FLAVORS @@ fl, images |-> SEED_IMAGES @@ im]

seed_data(fl, im) ==
    [flavors |-> IF DOMAIN fl = {} THEN SEED_FLAVORS ELSE fl,
     images |-> IF DOMAIN im = {} THEN SEED_IMAGES ELSE im]

\* a start of the application; last keeps the tables it found until the
\* application is ready
lifespan ==
    /\ last.op = "idle"
    /\ LET seeded == seed_data(flavors, images)
       IN  /\ flavors' = seeded.flavors
           /\ images' = seeded.images
    /\ last' = [Idle EXCEPT !.op = "startup", !.pre = servers, !.now = clock,
                            !.body = [flavors |-> flavors, images |-> images]]
    /\ UNCHANGED <<servers, clock, deleted, returned, seen, scenario, inflight>>

\* the catalog tables a start can find: empty, seeded, or holding records
\* provisioned or renamed out of band; names are unique within a table
FX == "11111111-0000-0000-0000-00000000000f"

IX == "22222222-0000-0000-0000-00000000000f"

CatalogTables(ids, names) ==
    {t \in UNION {[S -> names] : S \in SUBSET ids} :
        \A a, b \in DOMAIN t : a # b => t[a] # t[b]}

InitStartup ==
    /\ servers = EmptyMap
    /\ flavors \in CatalogTables({F1, F2, FX}, {"m1.tiny", "m1.small", "m1.custom"})
                     \cup {SEED_FLAVORS}
    /\ images \in CatalogTables({I1, IX}, {"Ubuntu 22.04 LTS", "custom"})
                    \cup {SEED_IMAGES}
    /\ clock = 0
    /\ last = Idle
    /\ deleted = {}
    /\ returned = [id \in ServerIds |-> Null]
    /\ seen = NoSeen
    /\ scenario = ScenarioOff
    /\ inflight = [slot \in Slots |-> NoSlot]

NextStartup ==
    \/ lifespan
    \/ Deliver

SpecStartup == InitStartup /\ [][NextStartup]_vars

\* the API together with a client that pages through the servers
NextWalk ==
    \/ Next
    \/ ApiWalkServers

SpecWalk == Init /\ [][NextWalk]_vars

(***************************************************************************)
(* Concurrent requests (section 5: each request is an independent unit of  *)
(* work on its own session; no locking). A request first runs the engine's *)
(* reads and checks, then, at a later step, the backend's mutating call,   *)
(* its flush and the commit; a list request first runs the count query     *)
(* and, at a later step, the page query; the steps of different requests   *)
(* interleave.                                                             *)
(***************************************************************************)
\* the requests that run concurrently: payloads the schemas accept
ConcurrentRequests ==
    {c \in {[op |-> "action",
             req |-> [NoReq EXCEPT !.server_id = id, !.action = action,
                                   !.flavor_id = flavor_id]] :
                id \in ServerIds, action \in ActionType,
                flavor_id \in ReqFlavorIds \cup {None}} :
        ServerActionValid(c.req.action, c.req.flavor_id)}
    \cup {c \in {[op |-> "update",
                  req |-> [NoReq EXCEPT !.server_id = id, !.name = name]] :
                     id \in ServerIds, name \in {"db", None}} :
             ServerUpdateValid(c.req.name)}
    \cup {[op |-> "delete", req |-> [NoReq EXCEPT !.server_id = id]] : id \in ServerIds}
    \cup {[op |-> "create",
           req |-> [NoReq EXCEPT !.name = "web", !.flavor_id = flavor_id,
                                 !.image_id = image_id]] :
              flavor_id \in ReqFlavorIds, image_id \in ReqImageIds}

\* the engine's method run in one piece on one store
EngineRun(c, store, id, ip, now) ==
    CASE c.op = "action" ->
            service_perform_action(store, c.req.server_id, c.req.action,
                                   c.req.flavor_id, now)
      [] c.op = "update" -> service_update(store, c.req.server_id, c.req.name, now)
      [] c.op = "delete" -> service_delete(store, c.req.server_id, now)
      [] OTHER -> service_create(store, id, ip, c.req.name, c.req.flavor_id,
                                 c.req.image_id, now)

\* the engine raises only AppExceptions: any other outcome means its checks
\* passed and the backend's mutating call was reached
EnginePasses(r) == r.ok \/ r.exc \notin AppExceptions

\* the argument the engine computes for the backend from what it read: the
\* flavor_id keyword of a resize, the name of an update
EngineArgument(c, loaded) ==
    CASE c.op = "action" ->
            IF c.req.action = "resize" /\ c.req.flavor_id \notin {None, ""}
            THEN c.req.flavor_id ELSE None
      [] c.op = "update" -> IF c.req.name # None THEN c.req.name ELSE loaded.name
      [] OTHER -> None

SuccessCode(op) ==
    CASE op = "create" -> 201
      [] op = "update" -> 200
      [] op = "delete" -> 204
      [] OTHER -> 202

BackendCallName(op) ==
    CASE op = "create" -> "create_server"
      [] op = "update" -> "update_server"
      [] op = "delete" -> "delete_server"
      [] OTHER -> "perform_action"

\* the backend's mutating call of an update, a delete or an action
BackendCall(sl, store, now) ==
    CASE sl.op = "action" ->
            backend_perform_action(store, sl.req.server_id, sl.req.action, sl.kw, now)
      [] sl.op = "update" -> update_server(store, sl.req.server_id, sl.kw, now)
      [] OTHER -> delete_server(store, sl.req.server_id, now)

\* an engine that calls the backend a second time when the call failed
EngineCall_RetriesOnce(sl, store, now) ==
    LET r == BackendCall(sl, store, now)
    IN  [r |-> r,
         calls |-> IF r.ok THEN <<BackendCallName(sl.op)>>
                   ELSE <<BackendCallName(sl.op), BackendCallName(sl.op)>>]

\* the engine calls the backend once and lets its outcome through
EngineCall(sl, store, now) ==
    [r |-> BackendCall(sl, store, now), calls |-> <<BackendCallName(sl.op)>>]

\* the row the backend's own SELECT of the server yields in the request's
\* session: the row as the engine's get_server loaded it when the session
\* still holds that object or the SELECT ran before the other requests'
\* commits, the stored row otherwise
SessionView(loaded, stored) == {loaded, stored}

\* flush and commit: the UPDATE sets the columns whose value the backend
\* changed on its view of the row, and leaves the others as stored
Flush(stored, view, new) ==
    [f \in DOMAIN stored |-> IF new[f] # view[f] THEN new[f] ELSE stored[f]]

\* a request arrives and the engine's reads and checks run
Begin(slot) ==
    /\ last.op = "idle"
    /\ inflight[slot].pc = "idle"
    /\ \E c \in ConcurrentRequests, id \in ServerIds, ip \in IpAddresses :
          LET r == EngineRun(c, servers, id, ip, clock)
              loaded == get_server(servers, c.req.server_id)
          IN  inflight' = [inflight EXCEPT ![slot] =
                  IF EnginePasses(r)
                  THEN [NoSlot EXCEPT !.pc = "read", !.op = c.op, !.req = c.req,
                                      !.loaded = loaded,
                                      !.kw = EngineArgument(c, loaded)]
                  ELSE [NoSlot EXCEPT !.pc = "done", !.op = c.op, !.req = c.req,
                                      !.loaded = loaded,
                                      !.http = StatusCodeOf(r.exc),
                                      !.code = ErrorCodeOf(r.exc),
                                      !.exc = r.exc]]
    /\ UNCHANGED <<servers, flavors, images, clock, last, deleted, returned, seen,
                   scenario>>

\* the backend's mutating call of a request that passed the engine's checks,
\* its flush and the commit that ends the request
Finish(slot) ==
    /\ inflight[slot].pc = "read"
    /\ LET sl == inflight[slot]
           id == sl.req.server_id
       IN  IF sl.op = "create"
           THEN \E new \in ServerIds \ DOMAIN servers, ip \in IpAddresses :
                   LET r == create_server(servers, new, ip, sl.req.name,
                                          sl.req.flavor_id, sl.req.image_id, clock)
                   IN  /\ servers' = r.store
                       /\ inflight' = [inflight EXCEPT ![slot] =
                              [sl EXCEPT !.pc = "done", !.http = SuccessCode(sl.op),
                                         !.calls = <<BackendCallName(sl.op)>>,
                                         !.after = r.value]]
           ELSE \E view \in SessionView(sl.loaded, servers[id]) :
                   LET e == EngineCall(sl, [servers EXCEPT ![id] = view], clock)
                       row == Flush(servers[id], view, e.r.store[id])
                   IN  /\ servers' = [servers EXCEPT ![id] = row]
                       /\ inflight' = [inflight EXCEPT ![slot] =
                              [sl EXCEPT
                                  !.pc = "done",
                                  !.http = IF e.r.ok THEN SuccessCode(sl.op)
                                           ELSE StatusCodeOf(e.r.exc),
                                  !.code = IF e.r.ok THEN None ELSE ErrorCodeOf(e.r.exc),
                                  !.exc = e.r.exc,
                                  !.calls = e.calls,
                                  !.before = servers[id],
                                  !.after = row,
                                  !.raced = {t \in Slots \ {slot} :
                                               /\ inflight[t].pc = "read"
                                               /\ inflight[t].req.server_id = id}]]
    /\ UNCHANGED <<flavors, images, clock, last, deleted, returned, seen, scenario>>

\* the list requests that run concurrently: queries PaginationParams accepts
ConcurrentLists ==
    {req \in {[NoReq EXCEPT !.limit = limit, !.offset = offset] :
                limit \in ReqLimits, offset \in ReqOffsets} :
        PaginationParamsValid(req.limit, req.offset)}

\* a list request arrives and list_servers runs its count query
ListCount(slot) ==
    /\ last.op = "idle"
    /\ inflight[slot].pc = "idle"
    /\ \E req \in ConcurrentLists :
          inflight' = [inflight EXCEPT ![slot] =
                          [NoSlot EXCEPT !.pc = "counted", !.op = "list", !.req = req,
                                         !.total = count_servers(servers)]]
    /\ UNCHANGED <<servers, flavors, images, clock, last, deleted, returned, seen,
                   scenario>>

\* list_servers runs its page query, on the table as it is by then, and the
\* endpoint builds the response from the page and the count
ListPage(slot) ==
    /\ inflight[slot].pc = "counted"
    /\ \E ord \in Orderings(servers) :
          LET sl == inflight[slot]
              records == page_servers(servers, ord, sl.req.limit, sl.req.offset)
          IN  inflight' = [inflight EXCEPT ![slot] =
                  [sl EXCEPT !.pc = "done", !.http = 200,
                             !.calls = <<"list_servers">>,
                             !.paged = servers,
                             !.body = PaginatedResponse(records, sl.total, sl.req.limit,
                                                        sl.req.offset)]]
    /\ UNCHANGED <<servers, flavors, images, clock, last, deleted, returned, seen,
                   scenario>>

\* a deployment with one running or stopped server, or two running ones, and
\* no request in flight
InitConcurrent ==
    /\ servers \in {(1 :> StoredRow(1, st)) : st \in {"ACTIVE", "SHUTOFF"}}
                     \cup {(1 :> StoredRow(1, "ACTIVE")) @@ (2 :> StoredRow(2, "ACTIVE"))}
    /\ flavors = SEED_FLAVORS
    /\ images = SEED_IMAGES
    /\ clock = 0
    /\ last = Idle
    /\ deleted = {}
    /\ returned = [id \in ServerIds |-> Null]
    /\ seen = NoSeen
    /\ scenario = ScenarioOff
    /\ inflight = [slot \in Slots |-> NoSlot]

NextConcurrent ==
    \/ \E slot \in Slots : Begin(slot)
    \/ \E slot \in Slots : Finish(slot)
    \/ \E slot \in Slots : ListCount(slot)
    \/ \E slot \in Slots : ListPage(slot)
    \/ Tick

SpecConcurrent == InitConcurrent /\ [][NextConcurrent]_vars

(***************************************************************************)
(* Vocabulary of the properties: the request that was just answered, the   *)
(* row it named before the request, and the transition table of the        *)
(* specification (section 4.1).                                            *)
(***************************************************************************)
Target == last.req.server_id

Existed == Target \in DOMAIN last.pre

Live == Existed /\ last.pre[Target].status # "DELETED"

\* the engine's perform_action ran: the ServerAction payload was accepted
ActionCalled ==
    last.op = "action" /\ ServerActionValid(last.req.action, last.req.flavor_id)

\* the engine's update ran: the ServerUpdate payload was accepted
UpdateCalled == last.op = "update" /\ ServerUpdateValid(last.req.name)

\* the engine's create ran: the ServerCreate payload was accepted
CreateCalled == last.op = "create" /\ ServerCreateValid(last.req.name)

\* the engine's list ran: the pagination query was accepted
ListCalled == last.op = "list" /\ PaginationParamsValid(last.req.limit, last.req.offset)

TransitionTable ==
    {<<"ACTIVE", "stop", "SHUTOFF">>, <<"ACTIVE", "reboot", "ACTIVE">>,
     <<"ACTIVE", "resize", "ACTIVE">>, <<"SHUTOFF", "start", "ACTIVE">>,
     <<"VERIFY_RESIZE", "confirm_resize", "ACTIVE">>}

\* the rows of the table whose action the API's action schema admits
ApiTransitionTable ==
    {<<"ACTIVE", "stop", "SHUTOFF">>, <<"ACTIVE", "reboot", "ACTIVE">>,
     <<"ACTIVE", "resize", "ACTIVE">>, <<"SHUTOFF", "start", "ACTIVE">>}

InTable(table, status, action) == \E e \in table : e[1] = status /\ e[2] = action

NextStatus(table, status, action) ==
    (CHOOSE e \in table : e[1] = status /\ e[2] = action)[3]

Succeeded(next) ==
    /\ last.http = 202
    /\ servers[Target].status = next
    /\ last.body.status = next

(***************************************************************************)
(* C1 as stated: for every existing, non-DELETED server and every          *)
(* (status, action) pair of the transition table reachable through the     *)
(* API, perform_action succeeds, the stored status becomes the table's     *)
(* next status and the returned record carries that status.                *)
(***************************************************************************)
C1_AsStated ==
    (ActionCalled /\ Live
        /\ InTable(ApiTransitionTable, last.pre[Target].status, last.req.action))
    => Succeeded(NextStatus(ApiTransitionTable, last.pre[Target].status, last.req.action))

(***************************************************************************)
(* C1 amended: the same, provided that the target flavor of a resize        *)
(* resolves in the catalog.                                                *)
(***************************************************************************)
C1_TableTransitionsSucceed ==
    (ActionCalled /\ Live
        /\ InTable(ApiTransitionTable, last.pre[Target].status, last.req.action)
        /\ (last.req.action = "resize" => last.req.flavor_id \in DOMAIN flavors))
    => Succeeded(NextStatus(ApiTransitionTable, last.pre[Target].status, last.req.action))

C1_Witness ==
    /\ ActionCalled /\ Live
    /\ last.pre[Target].status = "SHUTOFF"
    /\ last.req.action = "start"
    /\ last.http = 202
    /\ servers[Target].status = "ACTIVE"

(***************************************************************************)
(* C2: for every existing, non-DELETED server and every (status, action)   *)
(* pair that is not in the transition table, perform_action fails with     *)
(* 409 INVALID_STATE_TRANSITION and the details carry exactly the server's *)
(* current status and the requested action.                                *)
(***************************************************************************)
C2_OffTableRejected ==
    (ActionCalled /\ Live
        /\ ~InTable(TransitionTable, last.pre[Target].status, last.req.action))
    => /\ last.http = 409
       /\ last.code = "INVALID_STATE_TRANSITION"
       /\ last.details = [current_status |-> last.pre[Target].status,
                          action |-> last.req.action]

C2_Witness ==
    /\ ActionCalled /\ Live
    /\ last.pre[Target].status = "ERROR"
    /\ last.req.action = "start"
    /\ last.http = 409
    /\ last.details = [current_status |-> "ERROR", action |-> "start"]

(***************************************************************************)
(* C3: existence is checked before state: perform_action on a server ID    *)
(* that is absent from the store or whose status is DELETED fails with     *)
(* 404 SERVER_NOT_FOUND for every action, never with 409.                  *)
(***************************************************************************)
C3_ExistenceBeforeState ==
    (ActionCalled /\ ~Live)
    => /\ last.http = 404
       /\ last.code = "SERVER_NOT_FOUND"

C3_Witness ==
    /\ ActionCalled /\ Existed
    /\ last.pre[Target].status = "DELETED"
    /\ last.req.action = "stop"
    /\ last.http = 404

(***************************************************************************)
(* C4 as stated: for a server whose status is VERIFY_RESIZE, an action     *)
(* request confirm_resize is accepted and sets the status to ACTIVE.       *)
(***************************************************************************)
C4_ConfirmResizeAccepted ==
    (last.op = "action" /\ last.req.action = "confirm_resize" /\ last.req.flavor_id = None
        /\ Existed /\ last.pre[Target].status = "VERIFY_RESIZE")
    => /\ last.http = 202
       /\ servers[Target].status = "ACTIVE"

(***************************************************************************)
(* C5: once a server's status is DELETED it stays DELETED and the record   *)
(* stays in the store: whatever request is answered next (get, list,       *)
(* update, delete, perform_action, create), every row that was DELETED     *)
(* before the request is still stored with the same status, name,          *)
(* flavor_id, image_id and updated_at.                                     *)
(***************************************************************************)
C5_TombstoneImmutable ==
    last.op # "idle" =>
        \A id \in DOMAIN last.pre :
            last.pre[id].status = "DELETED" =>
                /\ id \in DOMAIN servers
                /\ servers[id].status = "DELETED"
                /\ servers[id].name = last.pre[id].name
                /\ servers[id].flavor_id = last.pre[id].flavor_id
                /\ servers[id].image_id = last.pre[id].image_id
                /\ servers[id].updated_at = last.pre[id].updated_at

\* a rename of a tombstone was attempted at a later instant than its deletion
C5_Witness ==
    /\ UpdateCalled /\ Existed
    /\ last.pre[Target].status = "DELETED"
    /\ last.req.name # None
    /\ last.req.name # last.pre[Target].name
    /\ last.now > last.pre[Target].updated_at
    /\ servers[Target] = last.pre[Target]

(***************************************************************************)
(* C6: deletion is one-way and not idempotent: a delete on an existing     *)
(* non-DELETED server answers 204 and sets its status to DELETED; a delete *)
(* on an ID whose delete was already answered 204 answers 404              *)
(* SERVER_NOT_FOUND; a delete on an ID that was never created answers 404  *)
(* SERVER_NOT_FOUND.                                                       *)
(***************************************************************************)
C6_DeleteOneWay ==
    last.op = "delete" =>
        /\ Live => (last.http = 204 /\ servers[Target].status = "DELETED")
        /\ Target \in deleted => (last.http = 404 /\ last.code = "SERVER_NOT_FOUND")
        /\ ~Existed => (last.http = 404 /\ last.code = "SERVER_NOT_FOUND")

C6_Witness ==
    /\ last.op = "delete"
    /\ Target \in deleted
    /\ last.http = 404

(***************************************************************************)
(* C7: get(id) fails with 404 SERVER_NOT_FOUND exactly when the ID is      *)
(* absent from the store or the stored status is DELETED; otherwise it     *)
(* returns the stored record; in every case the store is unchanged.        *)
(***************************************************************************)
C7_GetVisibility ==
    last.op = "get" =>
        /\ (last.http = 404) <=> ~Live
        /\ ~Live => last.code = "SERVER_NOT_FOUND"
        /\ Live => (last.http = 200 /\ last.body = last.pre[Target])
        /\ servers = last.pre

C7_Witness ==
    /\ last.op = "get" /\ Existed
    /\ last.pre[Target].status = "DELETED"
    /\ last.http = 404

(***************************************************************************)
(* C8: update answers 404 SERVER_NOT_FOUND on an absent ID and 409         *)
(* SERVER_DELETED on a server whose status is DELETED, while get, delete   *)
(* and perform_action on a DELETED server answer 404 SERVER_NOT_FOUND.     *)
(***************************************************************************)
C8_UpdateTellsTombstone ==
    /\ (UpdateCalled /\ ~Existed)
          => (last.http = 404 /\ last.code = "SERVER_NOT_FOUND")
    /\ (UpdateCalled /\ Existed /\ ~Live)
          => (last.http = 409 /\ last.code = "SERVER_DELETED")
    /\ ((last.op \in {"get", "delete"} \/ ActionCalled) /\ Existed /\ ~Live)
          => (last.http = 404 /\ last.code = "SERVER_NOT_FOUND")

C8_Witness ==
    /\ UpdateCalled /\ Existed /\ ~Live
    /\ last.http = 409
    /\ last.code = "SERVER_DELETED"

(***************************************************************************)
(* C9: list(limit, offset) never returns a DELETED server; its total is    *)
(* the number of stored servers that are not DELETED, whatever limit and   *)
(* offset; the page is the slice [offset, offset+limit) of the non-DELETED *)
(* servers by created_at, newest first, so it holds                        *)
(* min(limit, max(0, total-offset)) records. (Servers with equal           *)
(* created_at may come in either order.)                                   *)
(***************************************************************************)
Max(a, b) == IF a > b THEN a ELSE b

NotDeleted(store) == {id \in DOMAIN store : store[id].status # "DELETED"}

\* row is at position pos (from 1) of some newest-first order of the rows ids
AtPosition(store, ids, row, pos) ==
    /\ Cardinality({id \in ids : store[id].created_at > row.created_at}) <= pos - 1
    /\ Cardinality({id \in ids : store[id].created_at >= row.created_at}) >= pos

C9_ListPage ==
    ListCalled =>
        LET items == last.body.items
            ids == NotDeleted(last.pre)
        IN  /\ last.http = 200
            /\ last.body.total = Cardinality(ids)
            /\ Len(items) = Min(last.req.limit, Max(0, last.body.total - last.req.offset))
            /\ \A k \in 1..Len(items) :
                  /\ items[k].status # "DELETED"
                  /\ items[k].id \in ids
                  /\ items[k] = last.pre[items[k].id]
                  /\ AtPosition(last.pre, ids, items[k], last.req.offset + k)
            /\ \A k, j \in 1..Len(items) : k # j => items[k].id # items[j].id

\* the second page of a store with a newer, an older and no other visible
\* server
C9_Witness ==
    /\ ListCalled
    /\ last.req.limit = 1
    /\ last.req.offset = 1
    /\ last.body.total = 2
    /\ Len(last.body.items) = 1
    /\ \E id \in NotDeleted(last.pre) :
          last.pre[id].created_at > last.body.items[1].created_at

(***************************************************************************)
(* C10: create fails with 404 FLAVOR_NOT_FOUND when flavor_id does not     *)
(* resolve in the catalog, and with 404 IMAGE_NOT_FOUND when the flavor    *)
(* resolves and image_id does not; in both cases no server record is added *)
(* to the store.                                                           *)
(***************************************************************************)
C10_CreateChecksReferences ==
    CreateCalled =>
        /\ last.req.flavor_id \notin DOMAIN flavors
              => (last.http = 404 /\ last.code = "FLAVOR_NOT_FOUND")
        /\ (last.req.flavor_id \in DOMAIN flavors /\ last.req.image_id \notin DOMAIN images)
              => (last.http = 404 /\ last.code = "IMAGE_NOT_FOUND")
        /\ (last.req.flavor_id \notin DOMAIN flavors \/ last.req.image_id \notin DOMAIN images)
              => servers = last.pre

C10_Witness ==
    /\ CreateCalled
    /\ last.req.flavor_id \in DOMAIN flavors
    /\ last.req.image_id \notin DOMAIN images
    /\ last.code = "IMAGE_NOT_FOUND"
    /\ DOMAIN servers # ServerIds

(***************************************************************************)
(* Vocabulary of the frame properties: the rows other than the target, and *)
(* the fields of a row that name it and its origin.                        *)
(***************************************************************************)
OthersUnchanged ==
    \A id \in DOMAIN last.pre : id # Target => (id \in DOMAIN servers /\ servers[id] = last.pre[id])

NoRowAdded == DOMAIN servers = DOMAIN last.pre

(***************************************************************************)
(* C11: a successful create adds exactly one server record to the store,   *)
(* with an ID that no other stored server (deleted or not) has, status     *)
(* ACTIVE, and the requested name, flavor_id and image_id; every           *)
(* previously stored server record is left unchanged.                      *)
(***************************************************************************)
C11_CreateAddsOne ==
    (CreateCalled /\ last.http = 201) =>
        LET new == last.body.id
        IN  /\ new \notin DOMAIN last.pre
            /\ DOMAIN servers = DOMAIN last.pre \cup {new}
            /\ Cardinality(DOMAIN servers) = Cardinality(DOMAIN last.pre) + 1
            /\ servers[new].id = new
            /\ servers[new].status = "ACTIVE"
            /\ servers[new].name = last.req.name
            /\ servers[new].flavor_id = last.req.flavor_id
            /\ servers[new].image_id = last.req.image_id
            /\ \A id \in DOMAIN last.pre : servers[id] = last.pre[id]

\* a create answered 201 while the store held a tombstone
C11_Witness ==
    /\ CreateCalled
    /\ last.http = 201
    /\ \E id \in DOMAIN last.pre : last.pre[id].status = "DELETED"
    /\ Cardinality(DOMAIN servers) = 2

(***************************************************************************)
(* C13: resize on an ACTIVE server: when the target flavor_id does not     *)
(* resolve in the catalog the call fails with 404 FLAVOR_NOT_FOUND and the *)
(* server's status and flavor_id are unchanged; when it resolves, the call *)
(* succeeds, the stored flavor_id becomes the target flavor_id and the     *)
(* status stays ACTIVE.                                                    *)
(***************************************************************************)
C13_ResizeChecksFlavor ==
    (ActionCalled /\ last.req.action = "resize" /\ Live
        /\ last.pre[Target].status = "ACTIVE") =>
        /\ last.req.flavor_id \notin DOMAIN flavors =>
              /\ last.http = 404
              /\ last.code = "FLAVOR_NOT_FOUND"
              /\ servers[Target].status = "ACTIVE"
              /\ servers[Target].flavor_id = last.pre[Target].flavor_id
        /\ last.req.flavor_id \in DOMAIN flavors =>
              /\ last.http = 202
              /\ servers[Target].status = "ACTIVE"
              /\ servers[Target].flavor_id = last.req.flavor_id
              /\ last.body.flavor_id = last.req.flavor_id

\* a resize to another flavor of the catalog went through
C13_Witness ==
    /\ ActionCalled /\ last.req.action = "resize" /\ Live
    /\ last.pre[Target].status = "ACTIVE"
    /\ last.req.flavor_id \in DOMAIN flavors
    /\ last.req.flavor_id # last.pre[Target].flavor_id
    /\ servers[Target].flavor_id = last.req.flavor_id

(***************************************************************************)
(* C14: update on an existing non-DELETED server sets the name to the      *)
(* supplied name when one is given and keeps the current name when the     *)
(* name is omitted; in both cases the server's status, flavor_id,          *)
(* image_id, ip_address, id and created_at are unchanged and no other      *)
(* server is modified.                                                     *)
(***************************************************************************)
C14_UpdateFrame ==
    (UpdateCalled /\ Live) =>
        /\ last.http = 200
        /\ last.req.name # None => servers[Target].name = last.req.name
        /\ last.req.name = None => servers[Target].name = last.pre[Target].name
        /\ servers[Target].status = last.pre[Target].status
        /\ servers[Target].flavor_id = last.pre[Target].flavor_id
        /\ servers[Target].image_id = last.pre[Target].image_id
        /\ servers[Target].ip_address = last.pre[Target].ip_address
        /\ servers[Target].id = last.pre[Target].id
        /\ servers[Target].created_at = last.pre[Target].created_at
        /\ OthersUnchanged
        /\ NoRowAdded

\* an update without a name on a live server, with another server stored
C14_Witness ==
    /\ UpdateCalled /\ Live
    /\ last.req.name = None
    /\ last.http = 200
    /\ Cardinality(DOMAIN last.pre) = 2

(***************************************************************************)
(* C15: start, stop and reboot never change a server's flavor_id, and no   *)
(* perform_action (resize included) changes the server's id, name,         *)
(* image_id, ip_address or created_at or touches any other server's        *)
(* record; only resize changes flavor_id.                                  *)
(***************************************************************************)
C15_ActionFrame ==
    last.op = "action" =>
        /\ NoRowAdded
        /\ OthersUnchanged
        /\ Existed =>
              /\ servers[Target].id = last.pre[Target].id
              /\ servers[Target].name = last.pre[Target].name
              /\ servers[Target].image_id = last.pre[Target].image_id
              /\ servers[Target].ip_address = last.pre[Target].ip_address
              /\ servers[Target].created_at = last.pre[Target].created_at
              /\ last.req.action # "resize" =>
                    servers[Target].flavor_id = last.pre[Target].flavor_id

\* a stop went through on one of two stored servers
C15_Witness ==
    /\ ActionCalled /\ Live
    /\ last.req.action = "stop"
    /\ last.http = 202
    /\ servers[Target].status = "SHUTOFF"
    /\ Cardinality(DOMAIN last.pre) = 2

(***************************************************************************)
(* C16: every successful perform_action (reboot included), every           *)
(* successful update (one with the name omitted included) and every        *)
(* successful delete sets the server's updated_at to the time of that      *)
(* operation; the clock never going back, updated_at of a server never     *)
(* decreases and is never earlier than its created_at.                     *)
(***************************************************************************)
C16_UpdatedAtStamped ==
    /\ (last.op \in {"action", "update", "delete"} /\ last.http \in {200, 202, 204})
          => servers[Target].updated_at = last.now
    /\ last.op # "idle" =>
          \A id \in DOMAIN last.pre : servers[id].updated_at >= last.pre[id].updated_at
    /\ \A id \in DOMAIN servers : servers[id].updated_at >= servers[id].created_at

\* a reboot at a later instant than the server's last change
C16_Witness ==
    /\ ActionCalled /\ Live
    /\ last.req.action = "reboot"
    /\ last.http = 202
    /\ last.now > last.pre[Target].updated_at
    /\ servers[Target].updated_at = last.now
    /\ servers[Target].status = last.pre[Target].status

(***************************************************************************)
(* C18: action requests are validated before the engine runs: a request    *)
(* whose action is not one of start, stop, reboot, resize, a resize        *)
(* request without a non-empty flavor_id, and a non-resize request that    *)
(* carries a flavor_id are each rejected with 422 whatever the target      *)
(* server's existence or status, and the store is not modified.            *)
(***************************************************************************)
C18_ActionValidatedFirst ==
    (last.op = "action"
        /\ \/ last.req.action \notin {"start", "stop", "reboot", "resize"}
           \/ (last.req.action = "resize" /\ last.req.flavor_id \in {None, ""})
           \/ (last.req.action # "resize" /\ last.req.flavor_id # None))
    => /\ last.http = 422
       /\ last.code = "VALIDATION_ERROR"
       /\ servers = last.pre

\* a start that carries a flavor_id, aimed at a tombstone
C18_Witness ==
    /\ last.op = "action" /\ Existed
    /\ last.pre[Target].status = "DELETED"
    /\ last.req.action = "start"
    /\ last.req.flavor_id = F1
    /\ last.http = 422

(***************************************************************************)
(* C12: round trip: for every successful create(name, flavor_id,           *)
(* image_id), a get on the returned ID, with no other operation on that    *)
(* server in between, returns the same id, name, flavor_id and image_id    *)
(* that create returned; and after a successful resize to flavor F, get    *)
(* returns flavor_id = F.                                                  *)
(***************************************************************************)
C12_RoundTrip ==
    (last.op = "get" /\ returned[Target] # Null) =>
        /\ last.http = 200
        /\ returned[Target].op = "create" =>
              /\ last.body.id = returned[Target].id
              /\ last.body.name = returned[Target].name
              /\ last.body.flavor_id = returned[Target].flavor_id
              /\ last.body.image_id = returned[Target].image_id
        /\ returned[Target].op = "resize" =>
              last.body.flavor_id = returned[Target].flavor_id

\* a get right after the create of a server with the second flavor, a later
\* request on another server having been answered in between
C12_Witness ==
    /\ last.op = "get"
    /\ returned[Target] # Null
    /\ returned[Target].op = "create"
    /\ returned[Target].flavor_id = F2
    /\ last.body.flavor_id = F2
    /\ \E id \in DOMAIN last.pre : id # Target /\ last.pre[id].status = "DELETED"

(***************************************************************************)
(* C17: pagination law: for every list response (servers, flavors, images) *)
(* with total N, limit L in 1..100 and offset O >= 0, next_offset is null  *)
(* exactly when O+L >= N and otherwise equals O+L; the response echoes the *)
(* requested limit and offset, and total is the same as on the page a      *)
(* client last got from the same endpoint while the store is unchanged.    *)
(***************************************************************************)
ListOps == {"list", "list_flavors", "list_images"}

C17_PaginationLaw ==
    (last.op \in ListOps /\ last.req.limit \in 1..100 /\ last.req.offset >= 0) =>
        /\ last.http = 200
        /\ last.body.limit = last.req.limit
        /\ last.body.offset = last.req.offset
        /\ (last.body.next_offset = NoInt)
              <=> (last.req.offset + last.req.limit >= last.body.total)
        /\ (last.req.offset + last.req.limit < last.body.total)
              => last.body.next_offset = last.req.offset + last.req.limit
        /\ seen.op = last.op => last.body.total = seen.total

\* the second and last page of two servers, after another page of them
C17_Witness ==
    /\ last.op = "list"
    /\ seen.op = "list"
    /\ last.req.limit = 1
    /\ last.req.offset = 1
    /\ last.body.total = 2
    /\ last.body.next_offset = NoInt
    /\ Len(last.body.items) = 1

(***************************************************************************)
(* C19: each typed failure maps to exactly one transport status and one    *)
(* error code: ServerNotFound, FlavorNotFound and ImageNotFound give 404   *)
(* with codes SERVER_NOT_FOUND, FLAVOR_NOT_FOUND, IMAGE_NOT_FOUND;         *)
(* InvalidStateTransition gives 409 INVALID_STATE_TRANSITION;              *)
(* ServerDeleted gives 409 SERVER_DELETED; request validation failure      *)
(* gives 422 VALIDATION_ERROR; and every successful create, get/list/      *)
(* update, delete, action answers 201, 200, 204, 202 respectively.         *)
(***************************************************************************)
Raised(type) == last.exc # Null /\ last.exc.type = type

Answered(http, code) == last.http = http /\ last.code = code

C19_ErrorMapping ==
    /\ Raised("ServerNotFoundError") => Answered(404, "SERVER_NOT_FOUND")
    /\ Raised("FlavorNotFoundError") => Answered(404, "FLAVOR_NOT_FOUND")
    /\ Raised("ImageNotFoundError") => Answered(404, "IMAGE_NOT_FOUND")
    /\ Raised("InvalidStateTransitionError") => Answered(409, "INVALID_STATE_TRANSITION")
    /\ Raised("ServerDeletedError") => Answered(409, "SERVER_DELETED")
    /\ Raised("RequestValidationError") => Answered(422, "VALIDATION_ERROR")
    /\ (last.op # "idle" /\ last.exc = Null) =>
          /\ last.code = None
          /\ last.op = "create" => last.http = 201
          /\ last.op \in {"get", "list", "update", "get_flavor", "list_flavors",
                          "get_image", "list_images"} => last.http = 200
          /\ last.op = "delete" => last.http = 204
          /\ last.op = "action" => last.http = 202

\* a rename of a tombstone raised ServerDeleted and was answered with its
\* own code
C19_Witness ==
    /\ Raised("ServerDeletedError")
    /\ last.op = "update"
    /\ last.code # "SERVER_NOT_FOUND"
    /\ last.http = 409
    /\ last.message = "Server " \o ToString(Target) \o " has been deleted and cannot be modified"

(***************************************************************************)
(* C20: any failure that is not a typed application error or a request     *)
(* validation error is answered with status 500, code INTERNAL_ERROR, the  *)
(* fixed message 'An unexpected error occurred' and null details, so that  *)
(* two requests that fail with different internal exceptions (types or     *)
(* messages) receive the same response body.                               *)
(***************************************************************************)
C20_InternalErrorsOpaque ==
    (last.exc # Null
        /\ last.exc.type \notin {"ServerNotFoundError", "FlavorNotFoundError",
                                 "ImageNotFoundError", "InvalidStateTransitionError",
                                 "ServerDeletedError", "RequestValidationError"})
    => /\ last.http = 500
       /\ last.code = "INTERNAL_ERROR"
       /\ last.message = "An unexpected error occurred"
       /\ last.details = Null
       /\ last.body = Null

\* a database timeout was answered without its text
C20_Witness ==
    /\ last.exc # Null
    /\ last.exc.type = "TimeoutError"
    /\ last.exc.message = "connection timed out"
    /\ last.http = 500
    /\ last.message # last.exc.message

(***************************************************************************)
(* C23: in every state reachable through any sequence of create, update,   *)
(* delete and perform_action requests against the reference backend,       *)
(* every stored server's status is ACTIVE, SHUTOFF or DELETED: no          *)
(* operation ever produces BUILD, REBOOT, RESIZE, VERIFY_RESIZE or ERROR.   *)
(***************************************************************************)
C23_ThreeStatuses ==
    \A id \in DOMAIN servers : servers[id].status \in {"ACTIVE", "SHUTOFF", "DELETED"}

\* a reboot went through while the other server was a tombstone
C23_Witness ==
    /\ last.op = "action"
    /\ last.req.action = "reboot"
    /\ last.http = 202
    /\ servers[Target].status = "ACTIVE"
    /\ \E id \in DOMAIN servers : servers[id].status = "DELETED"

(***************************************************************************)
(* C24: in every reachable state the name of every stored server has       *)
(* between 1 and 255 characters: create with a missing or empty name or a  *)
(* name longer than 255 characters, and update with an empty or over-long  *)
(* name, are rejected with 422 and leave the store unchanged.              *)
(***************************************************************************)
BadName(name) == Len(name) = 0 \/ Len(name) > 255

C24_NameLength ==
    /\ \A id \in DOMAIN servers :
          Len(servers[id].name) >= 1 /\ Len(servers[id].name) <= 255
    /\ (last.op = "create" /\ (last.req.name = None \/ BadName(last.req.name)))
          => (last.http = 422 /\ servers = last.pre)
    /\ (last.op = "update" /\ last.req.name # None /\ BadName(last.req.name))
          => (last.http = 422 /\ servers = last.pre)

\* a rename to 256 characters of a server whose name has 255 was refused
C24_Witness ==
    /\ last.op = "update" /\ Live
    /\ Len(last.req.name) = 256
    /\ Len(last.pre[Target].name) = 255
    /\ last.http = 422
    /\ servers[Target].name = last.pre[Target].name

(***************************************************************************)
(* C25: catalog reads. get of a flavor or image ID returns the stored      *)
(* record when the ID exists and otherwise fails with FlavorNotFound /     *)
(* ImageNotFound (404); list of flavors or images returns the slice        *)
(* [offset, offset+limit) of all records ordered by name ascending         *)
(* together with the total count of all records.                           *)
(***************************************************************************)
\* name is at position pos (from 1) of some name-ascending order of table
NameAtPosition(table, name, pos) ==
    /\ Cardinality({id \in DOMAIN table : NameRank(table[id]) < NameRank(name)}) <= pos - 1
    /\ Cardinality({id \in DOMAIN table : NameRank(table[id]) <= NameRank(name)}) >= pos

CatalogGet(table, id, code) ==
    IF id \in DOMAIN table
    THEN last.http = 200 /\ last.body = [id |-> id, name |-> table[id]]
    ELSE last.http = 404 /\ last.code = code /\ last.body = Null

CatalogPage(table) ==
    PaginationParamsValid(last.req.limit, last.req.offset) =>
        LET items == last.body.items
        IN  /\ last.http = 200
            /\ last.body.total = Cardinality(DOMAIN table)
            /\ Len(items) = Min(last.req.limit,
                                Max(0, Cardinality(DOMAIN table) - last.req.offset))
            /\ \A k \in 1..Len(items) :
                  /\ items[k].id \in DOMAIN table
                  /\ items[k].name = table[items[k].id]
                  /\ NameAtPosition(table, items[k].name, last.req.offset + k)
            /\ \A k, j \in 1..Len(items) : k # j => items[k].id # items[j].id

C25_CatalogReads ==
    /\ last.op = "get_flavor" => CatalogGet(flavors, last.req.flavor_id, "FLAVOR_NOT_FOUND")
    /\ last.op = "get_image" => CatalogGet(images, last.req.image_id, "IMAGE_NOT_FOUND")
    /\ last.op = "list_flavors" => CatalogPage(flavors)
    /\ last.op = "list_images" => CatalogPage(images)

\* the second page of one of the five flavors holds the second in name order
C25_Witness ==
    /\ last.op = "list_flavors"
    /\ last.req.limit = 1
    /\ last.req.offset = 1
    /\ last.body.total = 5
    /\ Len(last.body.items) = 1
    /\ last.body.items[1].name = "m1.medium"

(***************************************************************************)
(* C26: the catalog is read-only from the API: no sequence of server,      *)
(* flavor or image requests (create, update, delete, perform_action        *)
(* including resize, get, list) adds, removes or changes any flavor or     *)
(* image record; the catalog stays as it was seeded.                       *)
(***************************************************************************)
C26_CatalogReadOnly ==
    /\ flavors = SEED_FLAVORS
    /\ images = SEED_IMAGES

\* a resize of the only server to the other flavor went through, with the
\* catalog as seeded
C26_Witness ==
    /\ last.op = "action"
    /\ last.req.action = "resize"
    /\ last.http = 202
    /\ last.pre[Target].flavor_id # servers[Target].flavor_id
    /\ Cardinality(DOMAIN servers) = 1
    /\ flavors = SEED_FLAVORS
    /\ images = SEED_IMAGES

(***************************************************************************)
(* C21: the lifecycle scenario runs as stated, in this order on one        *)
(* server: create gives 201 with status ACTIVE; stop gives 202 and         *)
(* SHUTOFF; a second stop gives 409 INVALID_STATE_TRANSITION; start gives  *)
(* 202 and ACTIVE; resize to an existing flavor F2 gives 202 and flavor_id *)
(* F2; delete gives 204; get gives 404; stop on the same ID gives 404, not *)
(* 409.                                                                    *)
(***************************************************************************)
ScenarioResponse(sc) ==
    CASE sc.step = 0 -> last.http = 201 /\ last.body.status = "ACTIVE"
      [] sc.step = 1 -> last.http = 202 /\ last.body.status = "SHUTOFF"
      [] sc.step = 2 -> last.http = 409 /\ last.code = "INVALID_STATE_TRANSITION"
      [] sc.step = 3 -> last.http = 202 /\ last.body.status = "ACTIVE"
      [] sc.step = 4 -> last.http = 202 /\ last.body.flavor_id = F2
      [] sc.step = 5 -> last.http = 204
      [] sc.step = 6 -> last.http = 404
      [] sc.step = 7 -> last.http = 404 /\ last.code # "INVALID_STATE_TRANSITION"
      [] OTHER -> TRUE

C21_LifecycleScenario ==
    (scenario.step # NoInt /\ ScenarioRequest(scenario)) => ScenarioResponse(scenario)

\* the scenario's last request, the stop on the deleted server, was answered
C21_Witness ==
    /\ scenario.step = 7
    /\ ScenarioRequest(scenario)
    /\ last.http = 404
    /\ servers[scenario.id].status = "DELETED"
    /\ servers[scenario.id].flavor_id = F2

(***************************************************************************)
(* C28 as stated: the backend's transition table mirrors the engine's: for *)
(* every status and action that the engine's VALID_TRANSITIONS permits,    *)
(* the reference backend's perform_action accepts the same pair and stores *)
(* the same next status, so an action that passed the engine's state check *)
(* is never refused by the backend when the status has not changed in      *)
(* between.                                                                *)
(***************************************************************************)
BackendCalled == last.op = "backend_action" /\ Existed

C28_BackendMirrorsEngine ==
    (BackendCalled
        /\ last.req.action \in DOMAIN GetOrEmpty(VALID_TRANSITIONS, last.pre[Target].status))
    => /\ last.exc = Null
       /\ servers[Target].status =
              VALID_TRANSITIONS[last.pre[Target].status][last.req.action]

(***************************************************************************)
(* C29: every operation that ends in a failure (ServerNotFound,            *)
(* ServerDeleted, InvalidStateTransition, FlavorNotFound, ImageNotFound,   *)
(* validation 422, or a backend refusal) leaves the whole store exactly as *)
(* it was before the request: no server field, including updated_at, is    *)
(* changed and no record is added.                                         *)
(***************************************************************************)
Failures == AppExceptions \cup {"RequestValidationError", "ValueError"}

C29_FailureLeavesStore ==
    (last.op # "idle" /\ last.exc # Null /\ last.exc.type \in Failures)
        => servers = last.pre

\* the backend refused an action on a stored server at a later instant than
\* the row's last write
C29_Witness ==
    /\ BackendCalled
    /\ last.exc # Null
    /\ last.exc.type = "ValueError"
    /\ last.now > last.pre[Target].updated_at
    /\ servers = last.pre

(***************************************************************************)
(* C22 as stated: when two concurrent perform_action requests on the same  *)
(* server both read the same pre-transition status before either writes,   *)
(* only one of them succeeds in applying its transition; the other does    *)
(* not report success (for every pair of actions permitted in that status, *)
(* including reboot/reboot and resize/resize on an ACTIVE server).         *)
(***************************************************************************)
\* request s ended an action on a server it had read
ActionDone(s) ==
    /\ inflight[s].pc = "done"
    /\ inflight[s].op = "action"
    /\ inflight[s].loaded # Null

\* s and t both read the same server in the same status before either wrote
ReadSameBeforeWrite(s, t) ==
    /\ inflight[s].req.server_id = inflight[t].req.server_id
    /\ inflight[s].loaded.status = inflight[t].loaded.status
    /\ (t \in inflight[s].raced \/ s \in inflight[t].raced)

C22_OneActionWins ==
    \A s, t \in Slots :
        (s # t /\ ActionDone(s) /\ ActionDone(t) /\ ReadSameBeforeWrite(s, t))
            => ~(inflight[s].http = 202 /\ inflight[t].http = 202)

(***************************************************************************)
(* C27: the engine never retries: each create, update, delete or           *)
(* perform_action request invokes the backend's mutating call              *)
(* (create_server, update_server, delete_server, perform_action) at most   *)
(* once, and when that call fails the failure reaches the caller without   *)
(* any further backend call being made.                                    *)
(***************************************************************************)
C27_NoRetry ==
    \A s \in Slots :
        /\ Len(inflight[s].calls) <= 1
        /\ (inflight[s].pc = "done" /\ inflight[s].exc = "ValueError")
              => /\ inflight[s].calls = <<BackendCallName(inflight[s].op)>>
                 /\ inflight[s].http = 500
                 /\ inflight[s].code = "INTERNAL_ERROR"

\* a stop that passed the engine's check on a running server was refused by
\* the backend, another request having stopped the server in between
C27_Witness ==
    \E s \in Slots :
        /\ inflight[s].pc = "done"
        /\ inflight[s].op = "action"
        /\ inflight[s].req.action = "stop"
        /\ inflight[s].loaded # Null
        /\ inflight[s].loaded.status = "ACTIVE"
        /\ inflight[s].before # Null
        /\ inflight[s].before.status = "SHUTOFF"
        /\ inflight[s].exc = "ValueError"
        /\ inflight[s].http = 500

(***************************************************************************)
(* C30 as stated: under any interleaving of concurrent requests on the     *)
(* same server (each request reads the record, then later writes), a       *)
(* tombstone stays immutable: an update that read the server before a      *)
(* concurrent delete completed never changes the name or updated_at of the *)
(* server once its status is DELETED.                                      *)
(***************************************************************************)
C30_TombstoneImmutableUnderRace ==
    \A s \in Slots :
        (inflight[s].pc = "done" /\ inflight[s].op = "update"
            /\ inflight[s].before # Null /\ inflight[s].before.status = "DELETED")
        => /\ inflight[s].after.name = inflight[s].before.name
           /\ inflight[s].after.updated_at = inflight[s].before.updated_at

(***************************************************************************)
(* C31 as stated: under any interleaving of concurrent delete requests on  *)
(* the same server ID, at most one of them succeeds (204); every other one *)
(* fails with ServerNotFound (404), also when both read the server before  *)
(* either wrote.                                                           *)
(***************************************************************************)
DeleteDone(s) == inflight[s].pc = "done" /\ inflight[s].op = "delete"

C31_OneDeleteWins ==
    \A s, t \in Slots :
        (s # t /\ DeleteDone(s) /\ DeleteDone(t)
            /\ inflight[s].req.server_id = inflight[t].req.server_id)
        => /\ ~(inflight[s].http = 204 /\ inflight[t].http = 204)
           /\ inflight[s].http # 204
                 => (inflight[s].http = 404 /\ inflight[s].code = "SERVER_NOT_FOUND")

(***************************************************************************)
(* C32 as stated: under any interleaving of concurrent perform_action,     *)
(* update and delete requests, every change of a server's stored status is *)
(* either an edge of the transition table taken from the status actually   *)
(* stored at the moment of the write, or a change to DELETED; in           *)
(* particular a perform_action that read the server before a concurrent    *)
(* delete or stop completed never moves a DELETED server back to ACTIVE or *)
(* SHUTOFF and never applies stop/reboot/resize to a SHUTOFF server.       *)
(***************************************************************************)
\* request s wrote the row it names
Wrote(s) == inflight[s].pc = "done" /\ inflight[s].before # Null

C32_StatusChangesAreEdges ==
    \A s \in Slots :
        Wrote(s) =>
            /\ inflight[s].after.status # inflight[s].before.status
                  => \/ inflight[s].after.status = "DELETED"
                     \/ /\ inflight[s].op = "action"
                        /\ InTable(TransitionTable, inflight[s].before.status,
                                   inflight[s].req.action)
                        /\ inflight[s].after.status =
                               NextStatus(TransitionTable, inflight[s].before.status,
                                          inflight[s].req.action)
            /\ (inflight[s].op = "action" /\ inflight[s].http = 202)
                  => InTable(TransitionTable, inflight[s].before.status,
                             inflight[s].req.action)

(***************************************************************************)
(* C33 as stated: every perform_action request that is refused is refused  *)
(* with a typed failure (ServerNotFound 404, InvalidStateTransition 409 or *)
(* FlavorNotFound 404), also when another request changes the server's     *)
(* status between this request's read and its write: the backend's own     *)
(* refusal (an untyped ValueError, which the transport turns into 500)     *)
(* never reaches a caller.                                                 *)
(***************************************************************************)
C33_TypedRefusals ==
    \A s \in Slots :
        (inflight[s].pc = "done" /\ inflight[s].op = "action" /\ inflight[s].http # 202)
        => /\ inflight[s].exc \in {"ServerNotFoundError", "InvalidStateTransitionError",
                                   "FlavorNotFoundError"}
           /\ inflight[s].http \in {404, 409}

(***************************************************************************)
(* C34: in perform_action the state check precedes the flavor check: a     *)
(* resize request on an existing server that is not ACTIVE fails with      *)
(* InvalidStateTransition (409) whether or not the target flavor exists,   *)
(* and FlavorNotFound (404) is returned only when the server is ACTIVE.    *)
(***************************************************************************)
ResizeCalled == ActionCalled /\ last.req.action = "resize"

C34_StateBeforeFlavor ==
    ResizeCalled =>
        /\ (Live /\ last.pre[Target].status # "ACTIVE")
              => /\ last.http = 409
                 /\ last.code = "INVALID_STATE_TRANSITION"
        /\ last.code = "FLAVOR_NOT_FOUND"
              => /\ last.http = 404
                 /\ Live
                 /\ last.pre[Target].status = "ACTIVE"
                 /\ last.req.flavor_id \notin DOMAIN flavors

\* a resize of a stopped server to a flavor the catalog lacks was refused for
\* its state
C34_Witness ==
    /\ ResizeCalled /\ Live
    /\ last.pre[Target].status = "SHUTOFF"
    /\ last.req.flavor_id \notin DOMAIN flavors
    /\ last.http = 409

(***************************************************************************)
(* C35: in create the flavor is checked before the image: a request whose  *)
(* flavor_id and image_id both fail to resolve fails with FlavorNotFound,  *)
(* never with ImageNotFound, and ImageNotFound is returned only when the   *)
(* flavor resolves.                                                        *)
(***************************************************************************)
C35_FlavorBeforeImage ==
    CreateCalled =>
        /\ (last.req.flavor_id \notin DOMAIN flavors /\ last.req.image_id \notin DOMAIN images)
              => /\ last.exc # Null
                 /\ last.exc.type = "FlavorNotFoundError"
                 /\ last.code # "IMAGE_NOT_FOUND"
        /\ (last.exc # Null /\ last.exc.type = "ImageNotFoundError")
              => last.req.flavor_id \in DOMAIN flavors

\* a create that names neither a flavor nor an image of the catalog
C35_Witness ==
    /\ CreateCalled
    /\ last.req.flavor_id \notin DOMAIN flavors
    /\ last.req.image_id \notin DOMAIN images
    /\ last.http = 404
    /\ last.code = "FLAVOR_NOT_FOUND"

(***************************************************************************)
(* C36: delete is not gated by the transition table: it succeeds on an     *)
(* existing server in every status other than DELETED (ACTIVE, SHUTOFF and *)
(* also BUILD, REBOOT, RESIZE, VERIFY_RESIZE, ERROR) and changes only that *)
(* server's status (to DELETED) and updated_at, leaving its name,          *)
(* flavor_id, image_id and ip_address and every other server unchanged.    *)
(***************************************************************************)
C36_DeleteUngated ==
    (last.op = "delete" /\ Live)
    => /\ last.http = 204
       /\ servers[Target] = [last.pre[Target] EXCEPT !.status = "DELETED",
                                                     !.updated_at = last.now]
       /\ OthersUnchanged
       /\ NoRowAdded

\* a server left in VERIFY_RESIZE was deleted while another server is stored
C36_Witness ==
    /\ last.op = "delete" /\ Live
    /\ last.pre[Target].status = "VERIFY_RESIZE"
    /\ last.http = 204
    /\ servers[Target].status = "DELETED"
    /\ Cardinality(DOMAIN servers) = 2

(***************************************************************************)
(* C37: lookup and listing agree in every reachable state: for every       *)
(* server ID, get(id) succeeds if and only if that server appears in the   *)
(* union of all pages of list, and the total reported by list equals the   *)
(* number of IDs for which get succeeds.                                   *)
(***************************************************************************)
GetSucceeds(store) == {id \in ServerIds : service_get(store, id).ok}

\* the IDs on the pages of one record each, in the order ord
ListedIds(store, ord) ==
    {service_list(store, ord, 1, offset).value.records[1].id :
        offset \in {o \in 0..MaxServers :
                      Len(service_list(store, ord, 1, o).value.records) = 1}}

C37_GetAgreesWithList ==
    /\ \A ord \in Orderings(servers) :
          /\ ListedIds(servers, ord) = GetSucceeds(servers)
          /\ service_list(servers, ord, 1, 0).value.total = Cardinality(GetSucceeds(servers))
    /\ ListCalled => last.body.total = Cardinality(GetSucceeds(last.pre))
    /\ last.op = "get" => (last.http = 200 <=> Target \in GetSucceeds(last.pre))

\* a list answered with total 1 on a store of a live server and a tombstone
C37_Witness ==
    /\ ListCalled
    /\ last.body.total = 1
    /\ Cardinality(DOMAIN servers) = 2
    /\ \E id \in DOMAIN servers : servers[id].status = "DELETED"
    /\ Cardinality(GetSucceeds(servers)) = 1

(***************************************************************************)
(* C38 as stated: following next_offset from offset 0 with a fixed limit   *)
(* until it is null, with no mutation of the store in between, terminates  *)
(* after ceil(total/limit) pages (one page when total is 0) and returns    *)
(* every non-DELETED server exactly once, with no server repeated or       *)
(* skipped, also when several servers share the same creation timestamp.   *)
(***************************************************************************)
\* the places of the walk at which the server id was returned
Occurrences(pages, id) ==
    {pk \in UNION {{<<p, k>> : k \in 1..Len(pages[p])} : p \in 1..Len(pages)} :
        pages[pk[1]][pk[2]] = id}

C38_WalkReturnsEachOnce ==
    last.op = "walk" =>
        LET pages == last.body.pages
            ids == NotDeleted(last.pre)
            total == Cardinality(ids)
            limit == last.req.limit
        IN  /\ Len(pages) = IF total = 0 THEN 1 ELSE (total + limit - 1) \div limit
            /\ \A id \in ids : Cardinality(Occurrences(pages, id)) = 1
            /\ \A id \in DOMAIN last.pre \ ids : Occurrences(pages, id) = {}

(***************************************************************************)
(* C39: start-up seeding is idempotent: seed_data inserts the fixed seed   *)
(* flavors only when the flavor table is empty and the fixed seed images   *)
(* only when the image table is empty, so running it again leaves the      *)
(* catalog as the first run left it, with the same IDs and no duplicates,  *)
(* and no existing record is overwritten.                                  *)
(***************************************************************************)
Started == last.op = "startup"

\* the table now holds every record of the table found, as it was
Kept(found, table) ==
    \A id \in DOMAIN found : id \in DOMAIN table /\ table[id] = found[id]

\* no two records of the table share a name
UniqueNames(table) ==
    \A a, b \in DOMAIN table : a # b => table[a] # table[b]

C39_SeedIdempotent ==
    Started =>
        /\ seed_data(flavors, images) = [flavors |-> flavors, images |-> images]
        /\ Kept(last.body.flavors, flavors)
        /\ Kept(last.body.images, images)
        /\ DOMAIN flavors \ DOMAIN last.body.flavors =
              IF DOMAIN last.body.flavors = {} THEN {F1, F2, F3, F4, F5} ELSE {}
        /\ DOMAIN images \ DOMAIN last.body.images =
              IF DOMAIN last.body.images = {} THEN {I1, I2, I3, I4} ELSE {}
        /\ UniqueNames(flavors)
        /\ UniqueNames(images)

\* a start that found the flavors seeded and the image table empty
C39_Witness ==
    /\ Started
    /\ last.body.flavors = SEED_FLAVORS
    /\ flavors = SEED_FLAVORS
    /\ DOMAIN last.body.images = {}
    /\ images = SEED_IMAGES

(***************************************************************************)
(* C9 for a list request that other requests overlap: the response never   *)
(* holds a DELETED server, its total is the number of stored servers that  *)
(* are not DELETED, and its page holds min(limit, max(0, total-offset))    *)
(* records, each a stored non-DELETED server, none twice.                  *)
(***************************************************************************)
ListAnswered(s) == inflight[s].op = "list" /\ inflight[s].pc = "done"

C9_ListPageUnderCommits ==
    \A s \in Slots :
        ListAnswered(s) =>
            LET sl == inflight[s]
                items == sl.body.items
                ids == NotDeleted(sl.paged)
            IN  /\ sl.http = 200
                /\ sl.body.total = Cardinality(ids)
                /\ Len(items) = Min(sl.req.limit, Max(0, sl.body.total - sl.req.offset))
                /\ \A k \in 1..Len(items) :
                      /\ items[k].status # "DELETED"
                      /\ items[k].id \in ids
                      /\ items[k] = sl.paged[items[k].id]
                /\ \A k, j \in 1..Len(items) : k # j => items[k].id # items[j].id

====
